---- MODULE Spec2Model ----
(***************************************************************************)
(* jobTree: the job store's recovery sweep (AbstractJobStore._clean) and   *)
(* the worker's execution loop (worker.main), as one state machine over    *)
(* the backing store they share.                                           *)
(*                                                                         *)
(* The backing store is a map from jobStoreID to job record plus a map     *)
(* from per-job file ID to owning job.  One process at a time runs against *)
(* it.  Every process first opens the store, and the constructor sweeps    *)
(* it; then the process is a worker, which loads the job it was started    *)
(* on, or it closes the store again (the leader restarting).               *)
(***************************************************************************)
EXTENDS Integers, Sequences, FiniteSets, TLC

VARIABLES
    store,      \* backing store: jobStoreID -> job record (DOMAIN = records that exist)
    usedIDs,    \* every jobStoreID create() has handed out so far
    files,      \* per-job files: file ID -> owning jobStoreID (DOMAIN = files that exist)
    usedFiles,  \* every file ID handed out so far
    stats,      \* number of blobs accumulated by writeStatsAndLogging
    config,     \* the configuration blob: [stats: BOOLEAN, try_count: Nat]
    w,          \* the running process: program counter and local variables
    sw,         \* history of the recovery sweep (what it read, what it wrote)
    run,        \* history of the worker run (how it ended, what it found)
    sp,         \* history of the last spawn (what its parent was, what it created)
    hd          \* the two client handles M and W: the record each one holds

vars == <<store, usedIDs, files, usedFiles, stats, config, w, sw, run, sp, hd>>

----------------------------------------------------------------------------
(* Bounds of the model *)

MaxJobs == 3        \* jobStoreIDs that can ever be allocated
MaxFiles == 1       \* per-job file IDs that can ever be allocated
MaxUpdateID == 2    \* updateIDs callers choose from
MaxRetry == 1       \* largest try_count of the configuration

JobIDs == 1 .. MaxJobs
FileIDs == 1 .. MaxFiles
UpdateIDs == 1 .. MaxUpdateID

(* Python's None, for IDs (jobStoreID, file ID, predecessorID) *)
None == 0

(* A command is None (no payload left) or a string; what the worker reads *)
(* of the string is whether it starts with "scriptTree ".                 *)
NoCommand == <<>>
TargetCommand(n) == <<"scriptTree ", n>>
ShellCommand(n) == <<"sh ", n>>
Commands == {TargetCommand(1), TargetCommand(2), ShellCommand(1)}

(* job.command[:11] == "scriptTree "  (worker.py:265) *)
IsTargetCommand(c) == c # NoCommand /\ c[1] = "scriptTree "

----------------------------------------------------------------------------
(* Job records *)

(* A variant of the created record for comparison: one that drops the *)
(* predecessorNumber handed to create                                 *)
NewJobWithoutPredecessors(id, command, memory, cpu, updateID, predecessorNumber, tryCount) ==
    [ jobStoreID |-> id,
      command |-> command,
      memory |-> memory,
      cpu |-> cpu,
      updateID |-> updateID,
      stack |-> <<>>,
      predecessorNumber |-> 0,
      predecessorsFinished |-> {},
      jobsToDelete |-> {},
      logJobStoreFileID |-> None,
      remainingRetryCount |-> tryCount ]

(* The record create() persists (jobStoreTest.py:70-79; spec 4.1) *)
NewJob(id, command, memory, cpu, updateID, predecessorNumber, tryCount) ==
    [ jobStoreID |-> id,
      command |-> command,
      memory |-> memory,
      cpu |-> cpu,
      updateID |-> updateID,
      stack |-> <<>>,
      predecessorNumber |-> predecessorNumber,
      predecessorsFinished |-> {},
      jobsToDelete |-> {},
      logJobStoreFileID |-> None,
      remainingRetryCount |-> tryCount ]

(* The local variable `job` before anything is bound to it *)
NullJob == NewJob(None, NoCommand, 0, 0, None, 0, 0)

(* An entry of a successor group: (jobStoreID, memory, cpu, predecessorID), *)
(* worker.py:312 *)
Successor(id, memory, cpu, predecessorID) == <<id, memory, cpu, predecessorID>>

----------------------------------------------------------------------------
(* The job store's operations on the backing store *)

(* exists(jobStoreID) *)
Exists(s, id) == id \in DOMAIN s

(* exists() as _clean and the worker call it: on an entry of a group *)
ExistsEntry(s, e) == Exists(s, e[1])

(* A variant of update for comparison: one that leaves the persisted stack *)
(* of an existing record as it was                                        *)
UpdateKeepingStack(s, job) ==
    [ x \in DOMAIN s \cup {job.jobStoreID} |->
        IF x = job.jobStoreID
        THEN IF x \in DOMAIN s THEN [job EXCEPT !.stack = s[x].stack] ELSE job
        ELSE s[x] ]

(* Another variant for comparison: one that writes the fields one by one *)
(* and loses the write of jobsToDelete                                   *)
UpdateKeepingMarkers(s, job) ==
    [ x \in DOMAIN s \cup {job.jobStoreID} |->
        IF x = job.jobStoreID
        THEN IF x \in DOMAIN s THEN [job EXCEPT !.jobsToDelete = s[x].jobsToDelete] ELSE job
        ELSE s[x] ]

(* update(job): replace the persisted record of job.jobStoreID *)
Update(s, job) ==
    [ x \in DOMAIN s \cup {job.jobStoreID} |->
        IF x = job.jobStoreID THEN job ELSE s[x] ]

(* A variant of delete for comparison: one that takes the successors named *)
(* in the record's stack with it                                           *)
DeleteWithSuccessors(s, id) ==
    LET named == IF id \in DOMAIN s
                 THEN { s[id].stack[g][k][1] :
                          g \in DOMAIN s[id].stack, k \in 1 .. 1 } \cap DOMAIN s
                 ELSE {}
    IN [ x \in DOMAIN s \ ({id} \cup named) |-> s[x] ]

(* A variant for comparison: delete of a record that is not there raises *)
DeleteRaisesOnAbsent(s, id) == id \notin DOMAIN s

(* delete "is idempotent, i.e. deleting a job twice or deleting a *)
(* non-existent job will succeed silently", lines 118-119         *)
DeleteRaises(s, id) == FALSE

(* delete(jobStoreID): idempotent; the record's files go with it *)
Delete(s, id) == [ x \in DOMAIN s \ {id} |-> s[x] ]

(* A variant for comparison: delete leaves the record's files behind *)
DeleteFilesOfNone(f, id) == f

(* "When delete(job) is called all files written with the given *)
(* job.jobStoreID will be removed from the jobStore"            *)
DeleteFilesOf(f, id) == [ x \in { y \in DOMAIN f : f[y] # id } |-> f[x] ]

(* A variant for comparison: deleteFile leaves the file where it is *)
DeleteFileKeeping(f, fid) == f

(* deleteFile(jobStoreFileID) on a file that exists *)
DeleteFile(f, fid) == [ x \in DOMAIN f \ {fid} |-> f[x] ]

(* writeFile(jobStoreID, path): a new file owned by jobStoreID *)
WriteFile(f, fid, owner) == [ x \in DOMAIN f \cup {fid} |-> IF x = fid THEN owner ELSE f[x] ]

(* jobs(): the records of the store, enumerated in the store's order *)
RECURSIVE SortedSeq(_)
SortedSeq(S) ==
    IF S = {} THEN <<>>
    ELSE LET m == CHOOSE x \in S : \A y \in S : x <= y
         IN <<m>> \o SortedSeq(S \ {m})

(* A variant of jobs() for comparison: one that misses the first record *)
JobsButFirst(s) == IF DOMAIN s = {} THEN <<>> ELSE Tail(SortedSeq(DOMAIN s))

Jobs(s) == SortedSeq(DOMAIN s)

(* started() *)
Started(s) == DOMAIN s # {}

----------------------------------------------------------------------------
(* The process and the histories *)

(* Local variables of a process that is not running *)
IdleW ==
    [ pc |-> "idle",
      id |-> None,            \* jobStoreID, sys.argv[2]
      job |-> NullJob,        \* job
      bound |-> FALSE,        \* whether `job` is bound
      D |-> {},               \* jobsToDelete of _clean
      todo |-> <<>>,          \* what is left of the jobs() iteration of _clean
      messages |-> FALSE,     \* whether `messages` is bound
      workerFailed |-> FALSE, \* workerFailed
      timeUp |-> FALSE,       \* time.time() - startTime > job_time
      successor |-> None,     \* jobStoreID of the successor being chained into
      plan |-> <<>>,          \* the successor groups the running payload creates
      made |-> <<>> ]         \* the groups it has created so far

NoRun ==
    [ outcome |-> "none",     \* how the process ended: COMPLETE, EXIT, FAILED (annotated
                              \* and persisted), RAISED (an exception left main or the
                              \* constructor), CRASHED (the process was killed)
      id |-> None,            \* the job the worker was started on
      pre |-> NullJob,        \* its persisted record when the worker was started
      workerFailed |-> FALSE, \* workerFailed when the process ended
      last |-> NullJob,       \* `job` when the process ended
      payloads |-> <<>>,      \* the commands whose payload ran to its end, in order
      checked |-> FALSE,      \* the chain check (lines 293-321) was reached
      raised |-> FALSE,       \* a payload raised
      chains |-> <<>>,        \* the successors a chain step was started on, in order
      log |-> None ]          \* the log file uploaded by the failure path

NoSpawn ==
    [ open |-> FALSE,         \* step 1 is persisted, step 3 is not
      dead |-> FALSE,         \* the spawning process ended while the spawn was open
      parent |-> None,        \* P
      pre |-> NullJob,        \* persisted P before step 1
      updateIDs |-> {},       \* u1..uN
      created |-> {} ]        \* the S_i created so far

NoSweep ==
    [ state |-> "none",       \* "none", "running", "done", "raised"
      pre |-> <<>>,           \* the store when the sweep started
      preFiles |-> <<>>,      \* the files when the sweep started
      deletes |-> <<>>,       \* jobStoreIDs the sweep called delete on, in order
      updates |-> <<>>,       \* jobStoreIDs the sweep called update on, in order
      second |-> FALSE,       \* the sweep started in the state the previous sweep ended in
      first |-> <<>>,         \* if second: the store the previous sweep started in
      post |-> <<>>,          \* the store when the last sweep ended (returned or raised)
      postFiles |-> <<>> ]    \* the files when the last sweep ended

----------------------------------------------------------------------------
(* AbstractJobStore._clean, abstractJobStore.py:276-322 *)

(* A variant of the first loop for comparison: one that reads the markers *)
(* of the records without a command only                                  *)
CollectJobsToDeleteOfShells(s) ==
    UNION { s[i].jobsToDelete : i \in { j \in DOMAIN s : s[j].command = NoCommand } }

(* lines 283-286: the union of jobsToDelete over the records of the store *)
CollectJobsToDelete(s) == UNION { s[i].jobsToDelete : i \in DOMAIN s }

(* lines 306-313: the while loop over the end of job.stack.  A group none of *)
(* whose members exists is popped; `changed` is set only when a group is     *)
(* replaced by its existing members.                                         *)
RECURSIVE RepairStack(_, _)
RepairStack(s, stack) ==
    IF Len(stack) = 0
    THEN [ stack |-> stack, changed |-> FALSE ]
    ELSE LET top == stack[Len(stack)]
             jobs == SelectSeq(top, LAMBDA e : ExistsEntry(s, e))
         IN IF Len(jobs) > 0
            THEN IF Len(jobs) < Len(top)
                 THEN [ stack |-> [stack EXCEPT ![Len(stack)] = jobs], changed |-> TRUE ]
                 ELSE [ stack |-> stack, changed |-> FALSE ]
            ELSE RepairStack(s, SubSeq(stack, 1, Len(stack) - 1))

(* A variant of the body for comparison: one that leaves jobsToDelete alone *)
RepairJobKeepingMarkers(s, job) ==
    LET r == RepairStack(s, job.stack)
    IN [ job |-> [job EXCEPT !.stack = r.stack,
                             !.logJobStoreFileID = None],
         changed |-> \/ job.jobsToDelete # {}
                     \/ r.changed
                     \/ job.logJobStoreFileID # None ]

(* lines 296-319: the body of the third loop up to the update, on the loaded *)
(* record: the job as changed in memory and the `changed` flag.              *)
RepairJob(s, job) ==
    LET r == RepairStack(s, job.stack)
    IN [ job |-> [job EXCEPT !.jobsToDelete = {},
                             !.stack = r.stack,
                             !.logJobStoreFileID = None],
         changed |-> \/ job.jobsToDelete # {}
                     \/ r.changed
                     \/ job.logJobStoreFileID # None ]

(* A variant of the test for comparison: on the jobStoreID *)
ShouldDeleteByJobStoreID(job, D) == job.jobStoreID \in D

(* line 291: the test of the second loop *)
ShouldDelete(job, D) == job.updateID \in D

(* A variant for comparison: update whether or not a change has occurred *)
ShouldUpdateAlways(changed) == TRUE

(* line 321: update, but only if a change has occurred *)
ShouldUpdate(changed) == changed

(* The sweep is over: the constructor returns *)
SweepReturns ==
    /\ sw' = [sw EXCEPT !.state = "done", !.post = store', !.postFiles = files']
    /\ w' = [w EXCEPT !.pc = "opened", !.D = {}, !.todo = <<>>, !.job = NullJob,
                      !.bound = FALSE]

(* A process starts: the constructor of the store calls _clean (line 43) *)
BeginSweep ==
    /\ w' = [IdleW EXCEPT !.pc = "clean"]
    /\ sw' = [ state |-> "running",
               pre |-> store,
               preFiles |-> files,
               deletes |-> <<>>,
               updates |-> <<>>,
               second |-> sw.state \in {"done", "raised"}
                          /\ sw.post = store /\ sw.postFiles = files,
               first |-> IF sw.state \in {"done", "raised"}
                            /\ sw.post = store /\ sw.postFiles = files
                         THEN sw.pre ELSE <<>>,
               post |-> sw.post,
               postFiles |-> sw.postFiles ]

(* lines 281-289: started(), the first loop, and the test of the second *)
CleanCollect ==
    /\ w.pc = "clean"
    /\ UNCHANGED <<store, usedIDs, files, usedFiles, stats, config, run, sp, hd>>
    /\ IF ~Started(store)
       THEN SweepReturns
       ELSE LET D == CollectJobsToDelete(store)
            IN /\ w' = [w EXCEPT !.pc = IF Cardinality(D) > 0 THEN "clean_delete"
                                                              ELSE "clean_repair",
                                 !.D = D,
                                 !.todo = Jobs(store)]
               /\ UNCHANGED sw

(* lines 290-292: one iteration of the second loop *)
CleanDelete ==
    /\ w.pc = "clean_delete"
    /\ UNCHANGED <<usedIDs, usedFiles, stats, config, run, sp, hd>>
    /\ IF w.todo = <<>>
       THEN /\ w' = [w EXCEPT !.pc = "clean_repair", !.todo = Jobs(store)]
            /\ UNCHANGED <<store, files, sw>>
       ELSE LET id == Head(w.todo)
            IN /\ w' = [w EXCEPT !.todo = Tail(w.todo)]
               /\ IF Exists(store, id) /\ ShouldDelete(store[id], w.D)
                  THEN /\ store' = Delete(store, id)
                       /\ files' = DeleteFilesOf(files, id)
                       /\ sw' = [sw EXCEPT !.deletes = Append(@, id)]
                  ELSE UNCHANGED <<store, files, sw>>

(* lines 295-322: one iteration of the third loop.  clearLogFile deletes the *)
(* log file (deleteFile raises when it does not exist: the constructor       *)
(* raises).  The update of line 322 writes the record as it was read and     *)
(* changed in memory, and follows as a step of its own.                      *)
CleanRepair ==
    /\ w.pc \in {"clean_repair", "clean_update"}
    /\ UNCHANGED <<usedIDs, usedFiles, stats, config, sp, hd>>
    /\ IF w.pc = "clean_update"
       THEN /\ store' = Update(store, w.job)
            /\ sw' = [sw EXCEPT !.updates = Append(@, w.job.jobStoreID)]
            /\ w' = [w EXCEPT !.pc = "clean_repair", !.job = NullJob, !.bound = FALSE]
            /\ UNCHANGED <<files, run>>
       ELSE IF w.todo = <<>>
       THEN /\ UNCHANGED <<store, files, run>>
            /\ SweepReturns
       ELSE LET id == Head(w.todo)
                job == store[id]
                r == RepairJob(store, job)
            IN IF ~Exists(store, id)
               THEN /\ w' = [w EXCEPT !.todo = Tail(w.todo)]
                    /\ UNCHANGED <<store, files, sw, run>>
               ELSE IF job.logJobStoreFileID # None
               THEN IF job.logJobStoreFileID \in DOMAIN files
                    THEN /\ files' = DeleteFile(files, job.logJobStoreFileID)
                         /\ w' = [w EXCEPT !.pc = "clean_update", !.job = r.job,
                                           !.bound = TRUE, !.todo = Tail(w.todo)]
                         /\ UNCHANGED <<store, sw, run>>
                    ELSE /\ sw' = [sw EXCEPT !.state = "raised", !.post = store,
                                            !.postFiles = files]
                         /\ w' = [IdleW EXCEPT !.pc = "ended"]
                         /\ run' = [run EXCEPT !.outcome = "RAISED"]
                         /\ UNCHANGED <<store, files>>
               ELSE /\ w' = IF ShouldUpdate(r.changed)
                            THEN [w EXCEPT !.pc = "clean_update", !.job = r.job,
                                           !.bound = TRUE, !.todo = Tail(w.todo)]
                            ELSE [w EXCEPT !.todo = Tail(w.todo)]
                    /\ UNCHANGED <<store, files, sw, run>>

----------------------------------------------------------------------------
(* Names and methods, as Python resolves them *)

(* The names main() binds before the try block or as loop variables; *)
(* `job` and `messages` are bound where the code assigns them.       *)
MainNames ==
    { "jobStoreString", "jobStoreID", "jobStore", "config", "environment",
      "localWorkerTempDir", "localTempDir", "tempWorkerLogPath", "origStdOut",
      "origStdErr", "logFh", "workerFailed", "stats", "startTime", "jobs",
      "memory", "cpu", "predecessorID", "successorJob" }

IsBound(name) ==
    CASE name = "job" -> w.bound
      [] name = "messages" -> w.messages
      [] OTHER -> name \in MainNames

(* The methods of AbstractJobStore, abstractJobStore.py:49-263 *)
JobStoreMethods ==
    { "started", "loadRootJob", "jobs", "create", "exists", "load", "update",
      "delete", "loadJobsInStore", "writeFile", "updateFile", "readFile",
      "deleteFile", "writeFileStream", "updateFileStream", "getEmptyFileStoreID",
      "readFileStream", "writeSharedFileStream", "readSharedFileStream",
      "writeStatsAndLogging", "readStatsAndLogging", "deleteJobStore" }

(* The attributes of a job record *)
HasAttr(job, name) == name \in DOMAIN job

(* The smallest ID not handed out yet: IDs are opaque and never reused *)
(* A variant for comparison: the smallest ID no record has now *)
NextIDReusing == CHOOSE i \in JobIDs \ DOMAIN store : \A j \in JobIDs \ DOMAIN store : i <= j

NextID == CHOOSE i \in JobIDs \ usedIDs : \A j \in JobIDs \ usedIDs : i <= j
NextFile == CHOOSE i \in FileIDs \ usedFiles : \A j \in FileIDs \ usedFiles : i <= j

(* create(command, memory, cpu, updateID, predecessorNumber); the retry count *)
(* is _defaultTryCount(), abstractJobStore.py:267-268                         *)
Create(s, id, command, memory, cpu, updateID, predecessorNumber) ==
    Update(s, NewJob(id, command, memory, cpu, updateID, predecessorNumber,
                     config.try_count))

----------------------------------------------------------------------------
(* The leader and the batch system (external) *)

(* The leader creates the root job: the first create of the store *)
CreateRoot ==
    /\ w.pc = "idle"
    /\ usedIDs = {}
    /\ \E c \in {TargetCommand(1), ShellCommand(1)} :
          store' = Create(store, NextID, c, 1, 1, 1, 0)
    /\ usedIDs' = usedIDs \cup {NextID}
    /\ UNCHANGED <<files, usedFiles, stats, config, w, sw, run, sp, hd>>

(* A process starts and opens the store: loadJobStore (worker.py:128) for a *)
(* worker, the leader's own handle otherwise.  The constructor calls _clean *)
(* (abstractJobStore.py:43).                                                *)
OpenStore ==
    /\ w.pc = "idle"
    /\ BeginSweep
    /\ run' = NoRun
    /\ UNCHANGED <<store, usedIDs, files, usedFiles, stats, config, sp, hd>>

(* A spawn that died before this sweep has now been recovered *)
Recovered == sp' = IF sp.dead THEN NoSpawn ELSE sp

(* The process was the leader's: nothing more happens *)
CloseStore ==
    /\ w.pc = "opened"
    /\ w' = [IdleW EXCEPT !.pc = "ended"]
    /\ Recovered
    /\ UNCHANGED <<store, usedIDs, files, usedFiles, stats, config, sw, run, hd>>

(* The process is  worker <dir> <jobStore> <jobStoreID>,  started by the     *)
(* batch system on a record of the store.  jobStoreID is first used at line  *)
(* 223, after the constructor has returned.                                  *)
StartWorker ==
    /\ w.pc = "opened"
    /\ FileIDs \ usedFiles # {}
    /\ \E j \in DOMAIN sw.pre :
          /\ w' = [w EXCEPT !.pc = "load", !.id = j]
          /\ run' = [NoRun EXCEPT !.id = j, !.pre = sw.pre[j]]
    /\ UNCHANGED <<store, usedIDs, files, usedFiles, stats, config, sw, sp, hd>>

(* The process is killed (a batch-system timeout, a machine failure) *)
Crash ==
    /\ w.pc \notin {"idle", "ended"}
    /\ w' = [IdleW EXCEPT !.pc = "ended"]
    /\ run' = [NoRun EXCEPT !.outcome = "CRASHED"]
    /\ sw' = IF sw.state = "running" THEN NoSweep ELSE sw
    /\ sp' = [sp EXCEPT !.dead = sp.open]
    /\ UNCHANGED <<store, usedIDs, files, usedFiles, stats, config, hd>>

(* The process is gone; what is left is the store *)
Reap ==
    /\ w.pc = "ended"
    /\ w' = IdleW
    /\ run' = NoRun
    /\ sw' = IF sw.state \in {"done", "raised"}
             THEN [sw EXCEPT !.deletes = <<>>, !.updates = <<>>, !.second = FALSE,
                             !.first = <<>>]
             ELSE NoSweep
    /\ UNCHANGED <<store, usedIDs, files, usedFiles, stats, config, sp, hd>>

----------------------------------------------------------------------------
(* worker.main, worker.py:207-429 *)

(* An exception inside the try block: control passes to line 381 *)
Raise(job) == w' = [w EXCEPT !.pc = "except", !.job = job]

(* The sweep of this process is behind it *)
PastSweep ==
    /\ sw' = NoSweep
    /\ Recovered

(* line 223: job = jobStore.load(jobStoreID) *)
Load ==
    /\ w.pc = "load"
    /\ PastSweep
    /\ IF Exists(store, w.id)
       THEN w' = [w EXCEPT !.pc = "prune", !.job = store[w.id], !.bound = TRUE]
       ELSE Raise(w.job)
    /\ UNCHANGED <<store, usedIDs, files, usedFiles, stats, config, run, hd>>

(* lines 231-239: pop the groups whose first successor is gone; jobs[0] of an *)
(* empty group raises IndexError                                              *)
RECURSIVE PruneStack(_, _)
PruneStack(s, stack) ==
    IF Len(stack) = 0 THEN [ stack |-> stack, raised |-> FALSE ]
    ELSE LET jobs == stack[Len(stack)]
         IN IF Len(jobs) = 0 THEN [ stack |-> stack, raised |-> TRUE ]
            ELSE IF ExistsEntry(s, jobs[1]) THEN [ stack |-> stack, raised |-> FALSE ]
            ELSE PruneStack(s, SubSeq(stack, 1, Len(stack) - 1))

(* Variant for comparison: the cleanup done whatever the command *)
PrunedAlways(s, job) == PruneStack(s, job.stack)

(* line 230: the cleanup is done only when the job has no command *)
Pruned(s, job) ==
    IF job.command = NoCommand
    THEN PruneStack(s, job.stack)
    ELSE [ stack |-> job.stack, raised |-> FALSE ]

(* lines 230-245: cleanup from an earlier invocation; clearLogFile deletes *)
(* the log file and raises when it does not exist                          *)
Prune ==
    /\ w.pc = "prune"
    /\ LET pr == Pruned(store, w.job)
           job1 == [w.job EXCEPT !.stack = pr.stack]
       IN IF pr.raised
          THEN /\ Raise(job1)
               /\ UNCHANGED files
          ELSE IF job1.logJobStoreFileID # None
          THEN IF job1.logJobStoreFileID \in DOMAIN files
               THEN /\ files' = DeleteFile(files, job1.logJobStoreFileID)
                    /\ w' = [w EXCEPT !.pc = "loop",
                                      !.job = [job1 EXCEPT !.logJobStoreFileID = None]]
               ELSE /\ Raise(job1)
                    /\ UNCHANGED files
          ELSE /\ w' = [w EXCEPT !.pc = "loop", !.job = job1]
               /\ UNCHANGED files
    /\ UNCHANGED <<store, usedIDs, usedFiles, stats, config, sw, run, sp, hd>>

(* lines 259-280: the top of the loop.  A target command runs the payload;  *)
(* any other command reaches system(command), and `command` is not a name   *)
(* of main; without a command the stack must be empty and the loop is left. *)
LoopTop ==
    /\ w.pc = "loop"
    /\ IF w.job.command # NoCommand
       THEN IF IsTargetCommand(w.job.command)
            THEN w' = [w EXCEPT !.pc = "payload"]
            ELSE IF IsBound("command")
                 THEN w' = [w EXCEPT !.pc = "check", !.messages = TRUE]
                 ELSE Raise(w.job)
       ELSE IF Len(w.job.stack) = 0
            THEN w' = [w EXCEPT !.pc = "stats"]
            ELSE Raise(w.job)
    /\ UNCHANGED <<store, usedIDs, files, usedFiles, stats, config, sw, run, sp, hd>>

----------------------------------------------------------------------------
(* The payload: Target._execute, which creates the successors of the job by *)
(* the spawn protocol (spec 4.5; jobStoreTest.py:88-106) and drops the      *)
(* command it has run.                                                      *)

(* What a payload asks for a successor: its requirements, whether it joins *)
(* several predecessors, and the updateID it is created with               *)
Request(memory, cpu, joins, updateID) ==
    [ memory |-> memory, cpu |-> cpu, joins |-> joins, updateID |-> updateID ]

(* A lone successor: as demanding as the root, or wanting more memory, more *)
(* cpu, or joining predecessors                                             *)
LoneRequests ==
    { Request(m[1], m[2], j, u) :
        m \in {<<1, 1>>, <<2, 1>>, <<1, 2>>}, j \in {FALSE}, u \in UpdateIDs }
    \cup { Request(1, 1, TRUE, u) : u \in UpdateIDs }

PlainRequests == { Request(1, 1, FALSE, u) : u \in UpdateIDs }

(* The successor groups a payload creates, bottom of the stack first: none, *)
(* one successor, a fan-out of two, or a follow-on below a child            *)
Plans ==
    {<<>>}
    \cup { <<<<a>>>> : a \in LoneRequests }
    \cup { <<<<a, b>>>> : a \in PlainRequests, b \in PlainRequests }
    \cup { <<<<a>>, <<b>>>> : a \in PlainRequests, b \in PlainRequests }

RECURSIVE Flatten(_)
Flatten(groups) ==
    IF groups = <<>> THEN <<>> ELSE Head(groups) \o Flatten(Tail(groups))

PlanUpdateIDs(plan) == { Flatten(plan)[k].updateID : k \in 1 .. Len(Flatten(plan)) }

(* Step 1: P.jobsToDelete := {u1..uN}; update(P).  A payload without *)
(* successors has nothing to mark.                                   *)
SpawnIntent ==
    /\ w.pc = "payload"
    /\ \E plan \in Plans :
          /\ Cardinality(usedIDs) + Len(Flatten(plan)) <= MaxJobs
          /\ IF plan = <<>>
             THEN /\ w' = [w EXCEPT !.pc = "spawn_link", !.plan = plan, !.made = <<>>]
                  /\ UNCHANGED <<store, sp>>
             ELSE LET job1 == [w.job EXCEPT !.jobsToDelete = PlanUpdateIDs(plan)]
                  IN /\ store' = Update(store, job1)
                     /\ w' = [w EXCEPT !.pc = "spawn_create", !.job = job1,
                                       !.plan = plan, !.made = <<<<>>>>]
                     /\ sp' = [ open |-> TRUE,
                                dead |-> FALSE,
                                parent |-> w.job.jobStoreID,
                                pre |-> store[w.job.jobStoreID],
                                updateIDs |-> PlanUpdateIDs(plan),
                                created |-> {} ]
    /\ UNCHANGED <<usedIDs, files, usedFiles, stats, config, sw, run, hd>>

(* Step 2: create(..., updateID = u_i), one successor at a time *)
SpawnCreate ==
    /\ w.pc = "spawn_create"
    /\ LET g == Len(w.made)
           k == Len(w.made[g]) + 1
           a == w.plan[g][k]
           e == Successor(NextID, a.memory, a.cpu,
                          IF a.joins THEN w.job.jobStoreID ELSE None)
           made1 == [w.made EXCEPT ![g] = Append(@, e)]
           last == g = Len(w.plan) /\ k = Len(w.plan[g])
       IN /\ store' = Create(store, NextID, TargetCommand(2), a.memory, a.cpu,
                             a.updateID, IF a.joins THEN 2 ELSE 1)
          /\ usedIDs' = usedIDs \cup {NextID}
          /\ sp' = [sp EXCEPT !.created = @ \cup {NextID}]
          /\ w' = [w EXCEPT !.made = IF ~last /\ k = Len(w.plan[g])
                                     THEN Append(made1, <<>>) ELSE made1,
                            !.pc = IF last THEN "spawn_link" ELSE "spawn_create"]
    /\ UNCHANGED <<files, usedFiles, stats, config, sw, run, hd>>

(* Step 3: push the groups, clear jobsToDelete, drop the command; update(P) *)
Linked(job, made) ==
    [job EXCEPT !.stack = @ \o made, !.jobsToDelete = {}, !.command = NoCommand]

SpawnLink ==
    /\ w.pc = "spawn_link"
    /\ store' = Update(store, Linked(w.job, w.made))
    /\ w' = [w EXCEPT !.pc = "check", !.job = Linked(w.job, w.made), !.messages = TRUE,
                      !.plan = <<>>, !.made = <<>>]
    /\ sp' = NoSpawn
    /\ run' = [run EXCEPT !.payloads = Append(@, w.job.command)]
    /\ UNCHANGED <<usedIDs, files, usedFiles, stats, config, sw, hd>>

(* The payload raises: before it marks, while it creates, or before it links *)
PayloadRaise ==
    /\ w.pc \in {"payload", "spawn_create", "spawn_link"}
    /\ Raise(w.job)
    /\ run' = [run EXCEPT !.raised = TRUE]
    /\ UNCHANGED <<store, usedIDs, files, usedFiles, stats, config, sw, sp, hd>>

----------------------------------------------------------------------------
(* worker.main, after the payload *)

(* A variant of the checks for comparison: without the test on memory *)
ChainDecisionNoMemory(job, timeUp) ==
    IF timeUp THEN "break"
    ELSE IF Len(job.stack) = 0 THEN "break"
    ELSE LET jobs == job.stack[Len(job.stack)]
         IN IF Len(jobs) >= 2 THEN "raise"
            ELSE IF Len(jobs) = 0 THEN "raise"
            ELSE IF jobs[1][3] > job.cpu THEN "break"
            ELSE IF jobs[1][4] # None THEN "break"
            ELSE "chain"

(* lines 293-321: can the worker run the next job itself?  "break" leaves    *)
(* the loop, "chain" goes on to line 333, "raise" is an exception: the       *)
(* logger call of lines 306-307 names `tasks`, which main does not bind, and *)
(* jobs[0] of an empty group is an IndexError.                               *)
ChainDecision(job, timeUp) ==
    IF timeUp THEN "break"
    ELSE IF Len(job.stack) = 0 THEN "break"
    ELSE LET jobs == job.stack[Len(job.stack)]
         IN IF Len(jobs) >= 2 THEN IF IsBound("tasks") THEN "break" ELSE "raise"
            ELSE IF Len(jobs) = 0 THEN "raise"
            ELSE IF jobs[1][2] > job.memory THEN "break"
            ELSE IF jobs[1][3] > job.cpu THEN "break"
            ELSE IF jobs[1][4] # None THEN "break"
            ELSE "chain"

(* lines 286-321.  The clock is read once, at line 293: the budget is either *)
(* exceeded by then or not, and once exceeded it stays exceeded.             *)
Check ==
    /\ w.pc = "check"
    /\ \E t \in IF w.timeUp THEN {TRUE} ELSE BOOLEAN :
          LET d == ChainDecision(w.job, t)
          IN /\ w' = [w EXCEPT !.timeUp = t,
                               !.pc = CASE d = "break" -> "stats"
                                        [] d = "raise" -> "except"
                                        [] OTHER -> "chain"]
             /\ run' = [run EXCEPT !.checked = TRUE]
    /\ UNCHANGED <<store, usedIDs, files, usedFiles, stats, config, sw, sp, hd>>

(* lines 338-341: the asserts on the loaded successor; `predeccesors` and *)
(* `predeccesorNumber` are not attributes of a job record                 *)
ChainAssertsRaise(successorJob, memory, cpu) ==
    \/ successorJob.memory # memory
    \/ successorJob.cpu # cpu
    \/ ~HasAttr(successorJob, "predeccesors")
    \/ ~HasAttr(successorJob, "predeccesorNumber")

(* lines 344-345: transplant the command and the stack.  Line 350 sets    *)
(* jobsToDelete on the job store object, not on the job.                  *)
Transplant(job, successorJob) ==
    [job EXCEPT !.command = successorJob.command, !.stack = @ \o successorJob.stack]

(* lines 333-352: one chain step.  The checkpoint update of line 351 and *)
(* the delete of line 352 are steps of their own.                        *)
Chain ==
    /\ w.pc \in {"chain", "chain_delete"}
    /\ IF w.pc = "chain_delete"
       THEN /\ store' = Delete(store, w.successor)
            /\ files' = DeleteFilesOf(files, w.successor)
            /\ w' = [w EXCEPT !.pc = "loop", !.successor = None]
            /\ UNCHANGED run
       ELSE LET e == w.job.stack[Len(w.job.stack)][1]
                job1 == [w.job EXCEPT !.stack = SubSeq(@, 1, Len(@) - 1)]
            IN /\ run' = [run EXCEPT !.chains = Append(@, e[1])]
               /\ UNCHANGED files
               /\ IF ~Exists(store, e[1])
                  THEN /\ Raise(job1)
                       /\ UNCHANGED store
                  ELSE IF ChainAssertsRaise(store[e[1]], e[2], e[3])
                  THEN /\ Raise(job1)
                       /\ UNCHANGED store
                  ELSE /\ store' = Update(store, Transplant(job1, store[e[1]]))
                       /\ w' = [w EXCEPT !.pc = "chain_delete", !.successor = e[1],
                                         !.job = Transplant(job1, store[e[1]])]
    /\ UNCHANGED <<usedIDs, usedFiles, stats, config, sw, sp, hd>>

(* lines 360-376: the stats record, or only the messages.  Both branches *)
(* read `messages`, which is bound only once a payload has run.          *)
Stats ==
    /\ w.pc = "stats"
    /\ IF ~IsBound("messages")
       THEN /\ Raise(w.job)
            /\ UNCHANGED stats
       ELSE /\ w' = [w EXCEPT !.pc = "finish"]
            /\ IF config.stats
               THEN stats' = stats + 1
               ELSE \E some \in BOOLEAN : stats' = IF some THEN stats + 1 ELSE stats
    /\ UNCHANGED <<store, usedIDs, files, usedFiles, config, sw, run, sp, hd>>

(* Job.setupJobAfterFailure (spec 4.7) *)
SetupJobAfterFailure(job) ==
    [job EXCEPT !.remainingRetryCount = IF @ - 1 > 0 THEN @ - 1 ELSE 0]

(* The process ends *)
Ends(outcome, job, failed, log) ==
    /\ w' = [IdleW EXCEPT !.pc = "ended"]
    /\ run' = [run EXCEPT !.outcome = outcome, !.last = job,
                          !.workerFailed = failed, !.log = log]
    /\ sp' = [sp EXCEPT !.dead = sp.open]

(* lines 381-386: the job is loaded again and annotated; when it does not *)
(* exist, NoSuchJobException leaves main                                  *)
Except ==
    /\ w.pc = "except"
    /\ IF Exists(store, w.id)
       THEN /\ w' = [w EXCEPT !.pc = "finish", !.job = SetupJobAfterFailure(store[w.id]),
                              !.bound = TRUE, !.workerFailed = TRUE]
            /\ UNCHANGED <<run, sp>>
       ELSE Ends("RAISED", w.job, FALSE, None)
    /\ UNCHANGED <<store, usedIDs, files, usedFiles, stats, config, sw, hd>>

(* A variant for comparison: without the test on the stack *)
ShouldDeleteJobNoStack(job) == job.command = NoCommand

(* line 427: the job has fully completed *)
ShouldDeleteJob(job) == job.command = NoCommand /\ Len(job.stack) = 0

(* lines 394-429.  After a failure the log is uploaded as a new file         *)
(* (Job.setLogFile) and the job is handed to jobStore.store, which is not a  *)
(* method of the job store: AttributeError leaves main.  Otherwise the job   *)
(* is deleted when it has fully completed.                                   *)
Finish ==
    /\ w.pc = "finish"
    /\ IF w.workerFailed
       THEN LET job1 == [w.job EXCEPT !.logJobStoreFileID = NextFile]
            IN /\ files' = WriteFile(files, NextFile, w.job.jobStoreID)
               /\ usedFiles' = usedFiles \cup {NextFile}
               /\ IF "store" \in JobStoreMethods
                  THEN /\ store' = Update(store, job1)
                       /\ Ends("FAILED", job1, TRUE, NextFile)
                  ELSE /\ UNCHANGED store
                       /\ Ends("RAISED", job1, TRUE, NextFile)
       ELSE /\ UNCHANGED usedFiles
            /\ IF ShouldDeleteJob(w.job)
               THEN /\ store' = Delete(store, w.job.jobStoreID)
                    /\ files' = DeleteFilesOf(files, w.job.jobStoreID)
                    /\ Ends("COMPLETE", w.job, FALSE, None)
               ELSE /\ UNCHANGED <<store, files>>
                    /\ Ends("EXIT", w.job, FALSE, None)
    /\ UNCHANGED <<usedIDs, stats, config, sw, hd>>

----------------------------------------------------------------------------
(* The sweep on its own: stores as a client of the job store can leave      *)
(* them (records it updated with intent markers, log file IDs and successor *)
(* groups; records and files it deleted), opened twice in a row.            *)

MaxDepth == 2       \* longest stack of the stores the sweep is started on

SweepIDs == {1, 2, 3}

(* Groups of the parent record 1: over the other records *)
SweepGroups ==
    { <<Successor(2, 1, 1, None)>>,
      <<Successor(3, 1, 1, None)>>,
      <<Successor(2, 1, 1, None), Successor(3, 1, 1, None)>> }

SweepStacks == UNION { [1 .. n -> SweepGroups] : n \in 0 .. MaxDepth }

SweepRecord(id, updateID, jobsToDelete, stack, log) ==
    [ NewJob(id, TargetCommand(1), 1, 1, updateID, 0, 1)
        EXCEPT !.jobsToDelete = jobsToDelete, !.stack = stack, !.logJobStoreFileID = log ]

Markers == {{}} \cup { {u} : u \in {1, 2} }

SweepParents ==
    { SweepRecord(1, u, d, st, l) :
        u \in {1, 2}, d \in Markers, st \in SweepStacks, l \in {None, 1, 2} }

SweepLeaves(id) ==
    { SweepRecord(id, u, d, <<>>, l) :
        u \in {1, 2}, d \in Markers, l \in IF id = 2 THEN {None, 2} ELSE {None} }

(* The stores: record 1 and any of the records 2 and 3; file 1 exists and is *)
(* owned by record 1, file 2 does not exist.                                 *)
InitSweep ==
    /\ \E p \in SweepParents :
       \E S \in SUBSET {2, 3} :
       \E l2 \in SweepLeaves(2) :
       \E l3 \in SweepLeaves(3) :
          store = [ i \in {1} \cup S |-> IF i = 1 THEN p ELSE IF i = 2 THEN l2 ELSE l3 ]
    /\ usedIDs = SweepIDs
    /\ files = [ f \in {1} |-> 1 ]
    /\ usedFiles = {1, 2}
    /\ stats = 0
    /\ config = [ stats |-> FALSE, try_count |-> 1 ]
    /\ w = IdleW
    /\ sw = NoSweep
    /\ run = NoRun
    /\ sp = NoSpawn
    /\ hd = <<>>

NextSweep ==
    \/ OpenStore
    \/ CleanCollect
    \/ CleanDelete
    \/ CleanRepair
    \/ CloseStore
    \/ Reap

SpecSweep == InitSweep /\ [][NextSweep]_vars

----------------------------------------------------------------------------
(* Claims about the recovery sweep *)

(* The union of jobsToDelete over the records persisted when the sweep started *)
OrphanSet == UNION { sw.pre[i].jobsToDelete : i \in DOMAIN sw.pre }

SweepEnded == sw.state \in {"done", "raised"} /\ w.pc \in {"opened", "ended"}

(* C2: with D the union of jobsToDelete over the records persisted when the *)
(* sweep starts, after the sweep no persisted record has its updateID in D  *)
(* and every record whose updateID is not in D is still persisted.          *)
C2_OrphanDeletion ==
    SweepEnded =>
        /\ \A i \in DOMAIN store : store[i].updateID \notin OrphanSet
        /\ \A i \in DOMAIN sw.pre : sw.pre[i].updateID \notin OrphanSet => i \in DOMAIN store

C2_Witness ==
    /\ sw.state = "done"
    /\ w.pc = "opened"
    /\ Len(sw.deletes) > 0
    /\ \E i \in DOMAIN store : sw.pre[i].jobsToDelete # {}

(* What C3 says the sweep leaves of a stack: trailing groups without an *)
(* existing member popped, the resulting top group filtered.            *)
RECURSIVE PopDeadGroups(_, _)
PopDeadGroups(s, stack) ==
    IF stack = <<>> THEN stack
    ELSE IF \E k \in 1 .. Len(stack[Len(stack)]) : stack[Len(stack)][k][1] \in DOMAIN s
         THEN stack
         ELSE PopDeadGroups(s, SubSeq(stack, 1, Len(stack) - 1))

RepairedStack(s, stack) ==
    LET p == PopDeadGroups(s, stack)
    IN IF p = <<>> THEN p
       ELSE [p EXCEPT ![Len(p)] = SelectSeq(p[Len(p)], LAMBDA e : e[1] \in DOMAIN s)]

(* C3: for every surviving record, the stack persisted after the sweep is   *)
(* the stack it had before with every trailing group without an existing    *)
(* member popped and the resulting top group filtered to the IDs that still *)
(* exist, also when the only change is that groups were popped.             *)
C3_StackRepair ==
    (sw.state = "done" /\ w.pc = "opened") =>
        \A i \in DOMAIN store : store[i].stack = RepairedStack(store, sw.pre[i].stack)

(* C4: a sweep started in the state the previous sweep left performs no *)
(* delete and no update, and leaves the store and the files as they are *)
C4_SecondSweepIdle ==
    (sw.second /\ sw.state \in {"running", "done", "raised"}) =>
        /\ sw.deletes = <<>>
        /\ sw.updates = <<>>
        /\ store = sw.post
        /\ files = sw.postFiles

C4_Witness ==
    /\ sw.second
    /\ sw.state = "done"
    /\ w.pc = "opened"
    /\ sw.first # sw.post
    /\ \E i \in DOMAIN sw.first : sw.first[i].logJobStoreFileID # None
    /\ \E i \in DOMAIN sw.first : i \notin DOMAIN store

(* The sweep has returned: the constructor of the store completed *)
SweepCompleted == sw.state = "done" /\ w.pc = "opened"

(* How often the sweep called update on record i *)
UpdatesOf(i) == Cardinality({ k \in DOMAIN sw.updates : sw.updates[k] = i })

(* The sweep has something to change in the record i it started with: *)
(* markers to clear, a group to pop or filter, a log file ID to clear *)
SweepChanges(i) ==
    \/ sw.pre[i].jobsToDelete # {}
    \/ RepairedStack(store, sw.pre[i].stack) # sw.pre[i].stack
    \/ sw.pre[i].logJobStoreFileID # None

(* C18: in one sweep every surviving record is updated once if the sweep *)
(* cleared its jobsToDelete, popped or filtered a group of its stack or  *)
(* cleared its log file ID, and not at all otherwise.                    *)
C18_UpdateDiscipline ==
    /\ sw.state \in {"running", "done"} =>
          \A i \in DOMAIN store : UpdatesOf(i) <= 1
    /\ SweepCompleted =>
          \A i \in DOMAIN store : UpdatesOf(i) = IF SweepChanges(i) THEN 1 ELSE 0

(* C19: after a sweep has completed every surviving record is persisted *)
(* with jobsToDelete empty.                                             *)
C19_MarkersCleared ==
    SweepCompleted => \A i \in DOMAIN store : store[i].jobsToDelete = {}

(* A record that had a marker survived the sweep and was updated *)
C19_Witness ==
    /\ SweepCompleted
    /\ \E i \in DOMAIN store :
          /\ sw.pre[i].jobsToDelete # {}
          /\ UpdatesOf(i) = 1
          /\ store[i].jobsToDelete = {}

(* C20: after a sweep has completed every surviving record is persisted  *)
(* without a log file ID, and the log files the surviving records named  *)
(* before the sweep are gone.                                            *)
C20_LogsCleared ==
    SweepCompleted =>
        \A i \in DOMAIN store :
            /\ store[i].logJobStoreFileID = None
            /\ sw.pre[i].logJobStoreFileID # None =>
                  sw.pre[i].logJobStoreFileID \notin DOMAIN files

(* A surviving record named a log file that was there before the sweep *)
C20_Witness ==
    /\ SweepCompleted
    /\ \E i \in DOMAIN store :
          /\ sw.pre[i].logJobStoreFileID \in DOMAIN sw.preFiles
          /\ sw.pre[i].logJobStoreFileID \notin DOMAIN files
          /\ store[i].logJobStoreFileID = None

(* The jobStoreIDs named in the stacks of the store s: the successors that *)
(* a committed linking update placed there                                 *)
LinkedIDs(s) ==
    UNION { UNION { { s[i].stack[g][k][1] : k \in DOMAIN s[i].stack[g] } :
                    g \in DOMAIN s[i].stack } : i \in DOMAIN s }

(* No marker of the store the sweep started on is the updateID of a linked *)
(* successor                                                               *)
MarkersApart ==
    \A i \in DOMAIN sw.pre \cap LinkedIDs(sw.pre) :
        sw.pre[i].updateID \notin CollectJobsToDelete(sw.pre)

Dangling(i) ==
    /\ sw.pre[i].logJobStoreFileID # None
    /\ sw.pre[i].logJobStoreFileID \notin DOMAIN sw.preFiles

(* C33: a sweep that meets a record whose log file ID names a file that no *)
(* longer exists does not make the constructor fail: it runs to its end,   *)
(* persists that record without the log file ID and repairs the others     *)
(* (no markers, no log file IDs left).                                     *)
C33_DanglingLogTolerated ==
    (/\ sw.state \in {"done", "raised"}
     /\ \E i \in DOMAIN sw.pre : Dangling(i) /\ ~ShouldDelete(sw.pre[i], CollectJobsToDelete(sw.pre))) =>
        /\ sw.state = "done"
        /\ \A i \in DOMAIN store :
              /\ store[i].logJobStoreFileID = None
              /\ store[i].jobsToDelete = {}

----------------------------------------------------------------------------
(* The workflow: the leader creates the root job and starts workers on the *)
(* records of the store, one at a time; a process can be killed anywhere.  *)

Init ==
    /\ store = <<>>
    /\ usedIDs = {}
    /\ files = <<>>
    /\ usedFiles = {}
    /\ stats = 0
    /\ config \in [ stats : BOOLEAN, try_count : 0 .. MaxRetry ]
    /\ w = IdleW
    /\ sw = NoSweep
    /\ run = NoRun
    /\ sp = NoSpawn
    /\ hd = <<>>

Next ==
    \/ CreateRoot
    \/ OpenStore
    \/ CleanCollect
    \/ CleanDelete
    \/ CleanRepair
    \/ CloseStore
    \/ StartWorker
    \/ Crash
    \/ Reap
    \/ Load
    \/ Prune
    \/ LoopTop
    \/ SpawnIntent
    \/ SpawnCreate
    \/ SpawnLink
    \/ PayloadRaise
    \/ Check
    \/ Chain
    \/ Stats
    \/ Except
    \/ Finish

Spec == Init /\ [][Next]_vars

----------------------------------------------------------------------------
(* Properties of the spawn protocol and of the worker *)

(* A spawn whose process ended between step 1 and step 3, and the sweep of *)
(* the next process that opened the store has returned                     *)
SpawnRecovered == w.pc = "opened" /\ sw.state = "done" /\ sp.open /\ sp.dead

(* P as if step 1 had never happened, and none of the S_i *)
SpawnUndone ==
    /\ \A i \in sp.created : i \notin DOMAIN store
    /\ sp.parent \in DOMAIN store
    /\ store[sp.parent].jobsToDelete = {}
    /\ store[sp.parent].command = sp.pre.command
    /\ store[sp.parent].stack = sp.pre.stack

RunEnded == w.pc = "ended" /\ run.id # None /\ run.outcome # "CRASHED"

(* C5: a worker invocation that chains into the singleton successors of its  *)
(* job, none of whose payloads raises, runs the payload of every job of the  *)
(* chain, deletes the successors it chained into, and ends without failure:  *)
(* no retry is spent, no log is attached, and J1 is deleted as COMPLETE once *)
(* its command is absent and its stack is empty.                             *)
C5_ChainCorrectness ==
    (RunEnded /\ run.chains # <<>> /\ ~run.raised) =>
        /\ ~run.workerFailed
        /\ run.outcome \in {"COMPLETE", "EXIT"}
        /\ \A k \in 1 .. Len(run.chains) : run.chains[k] \notin DOMAIN store
        /\ Len(run.payloads) = Len(run.chains) + 1
        /\ run.log = None
        /\ (run.last.command = NoCommand /\ run.last.stack = <<>>) => run.id \notin DOMAIN store
        /\ run.id \in DOMAIN store =>
              /\ store[run.id].remainingRetryCount = run.pre.remainingRetryCount
              /\ store[run.id].logJobStoreFileID = None

(* The conditions under which the next job can be run by the same worker *)
Eligible(job, timeUp) ==
    /\ ~timeUp
    /\ Len(job.stack) > 0
    /\ LET jobs == job.stack[Len(job.stack)]
       IN /\ Len(jobs) = 1
          /\ jobs[1][2] <= job.memory
          /\ jobs[1][3] <= job.cpu
          /\ jobs[1][4] = None

PayloadPCs == {"payload", "spawn_create", "spawn_link"}

LoopPCs == {"loop", "check", "stats", "except"} \cup PayloadPCs

(* C6: the worker goes on to chain into a successor only when the time      *)
(* budget is not exceeded, the stack is not empty, its top group has one    *)
(* successor, which needs no more memory and no more cpu than J and has no  *)
(* predecessorID; in every other case the loop is left with J.stack as it   *)
(* was and no record deleted.  The budget is read between payloads only: no *)
(* step of a payload changes it or leaves the loop because of it, and no    *)
(* step of the loop other than the chain step deletes a record.             *)
C6_ChainEligibility ==
    [][ /\ (w.pc = "check" /\ w'.pc = "chain") => Eligible(w.job, w'.timeUp)
        /\ (w.pc = "check" /\ w'.pc \in {"stats", "except"}) =>
              /\ ~Eligible(w.job, w'.timeUp)
              /\ w'.job.stack = w.job.stack
              /\ store' = store
        /\ (w.pc \in PayloadPCs /\ w'.pc # "ended") =>
              /\ w'.timeUp = w.timeUp
              /\ w'.pc \in PayloadPCs \cup {"check", "except"}
        /\ w.pc \in LoopPCs => DOMAIN store \subseteq DOMAIN store'
      ]_vars

C6_Witness ==
    /\ w.pc = "chain"
    /\ run.checked
    /\ Eligible(w.job, w.timeUp)

(* C7: a worker run that ends without failure has deleted J exactly when, *)
(* after the loop, J.command is absent and J.stack is empty.              *)
C7_Completion ==
    (RunEnded /\ run.outcome \in {"COMPLETE", "EXIT"}) =>
        /\ ~run.workerFailed
        /\ run.id \notin DOMAIN store <=>
              (run.last.command = NoCommand /\ Len(run.last.stack) = 0)
        /\ run.id \in DOMAIN store => store[run.id] = run.last

C7_Witness ==
    /\ RunEnded
    /\ run.outcome = "COMPLETE"
    /\ run.pre.command # NoCommand
    /\ run.id \notin DOMAIN store

(* The run took the failure path of lines 381-386 *)
RunFailed == RunEnded /\ run.workerFailed

(* C8: a worker run that failed leaves the persisted remainingRetryCount of *)
(* J one lower than it found it, or 0 when it was 0; a run that ends in     *)
(* COMPLETE or EXIT leaves it as it was; the count is never negative.       *)
C8_RetryBudget ==
    /\ \A i \in DOMAIN store : store[i].remainingRetryCount >= 0
    /\ RunFailed =>
          /\ run.id \in DOMAIN store
          /\ store[run.id].remainingRetryCount =
                IF run.pre.remainingRetryCount > 0
                THEN run.pre.remainingRetryCount - 1 ELSE 0
    /\ (RunEnded /\ run.outcome = "EXIT") =>
          store[run.id].remainingRetryCount = run.pre.remainingRetryCount

(* C9: a worker run that failed ends in FAILED, not in an exception: J is *)
(* persisted with logJobStoreFileID the ID of the log file the run has    *)
(* uploaded, and that file exists.                                        *)
C9_FailurePersisted ==
    RunFailed =>
        /\ run.outcome = "FAILED"
        /\ run.log # None
        /\ run.log \in DOMAIN files
        /\ run.id \in DOMAIN store
        /\ store[run.id].logJobStoreFileID = run.log

(* The entry (jobStoreID, memory, cpu, predecessorID) the chain step at *)
(* line 333 is about to chain into                                      *)
ChainEntry == w.job.stack[Len(w.job.stack)][1]

(* The chain step is started on a successor that exists and has the memory *)
(* and cpu recorded in the group, predecessorNumber 1 and no finished      *)
(* predecessors                                                            *)
ChainStarts ==
    /\ w.pc = "chain"
    /\ w'.pc \notin {"ended", "chain"}
    /\ Exists(store, ChainEntry[1])
    /\ store[ChainEntry[1]].memory = ChainEntry[2]
    /\ store[ChainEntry[1]].cpu = ChainEntry[3]
    /\ store[ChainEntry[1]].predecessorNumber = 1
    /\ store[ChainEntry[1]].predecessorsFinished = {}

(* The delete of line 352 *)
ChainDeletes == w.pc = "chain_delete" /\ w'.pc = "loop"

(* C24: one chain step from J into its sole successor S, which has the     *)
(* memory and cpu recorded in the group, predecessorNumber 1 and no         *)
(* finished predecessor, persists J with the command of S and with its own  *)
(* stack less the top group followed by the stack of S, deletes S, and goes *)
(* on to the payload of S; the failure path is not entered.                 *)
C24_ChainTransplant ==
    [][ /\ ChainStarts =>
              /\ w'.pc # "except"
              /\ store'[w.id].command = store[ChainEntry[1]].command
              /\ store'[w.id].stack =
                    SubSeq(w.job.stack, 1, Len(w.job.stack) - 1)
                       \o store[ChainEntry[1]].stack
        /\ ChainDeletes =>
              /\ ~Exists(store', w.successor)
              /\ store'[w.id] = store[w.id]
              /\ w'.job.command = store'[w.id].command
      ]_vars

(* C25: the chain step checkpoints J before it deletes S: the update of   *)
(* line 351 persists J with the command and stack of S transplanted and   *)
(* with jobsToDelete naming S, while S still exists; S is deleted only    *)
(* when persisted J carries its command and stack.                        *)
C25_ChainCheckpoint ==
    [][ /\ ChainStarts =>
              /\ w'.pc = "chain_delete"
              /\ Exists(store', ChainEntry[1])
              /\ store'[w.id].command = store[ChainEntry[1]].command
              /\ store'[w.id].jobsToDelete = {ChainEntry[1]}
        /\ ChainDeletes =>
              /\ store[w.id].command = store[w.successor].command
              /\ Len(store[w.id].stack) >= Len(store[w.successor].stack)
              /\ SubSeq(store[w.id].stack,
                        Len(store[w.id].stack) - Len(store[w.successor].stack) + 1,
                        Len(store[w.id].stack)) = store[w.successor].stack
      ]_vars

(* C26: the store a chain step leaves between its checkpoint and its      *)
(* delete is one in which the recovery sweep deletes S: should the worker *)
(* die there, the second loop of the sweep that follows finds the         *)
(* updateID of S among the jobsToDelete it has collected, and S does not  *)
(* survive next to the J that has taken its command over.                 *)
C26_ChainCrashRecovery ==
    [][ ChainStarts =>
            /\ w'.pc = "chain_delete"
            /\ store'[w.id].command = store[ChainEntry[1]].command
            /\ ShouldDelete(store'[ChainEntry[1]], CollectJobsToDelete(store'))
      ]_vars

(* C27: a worker that loads a record without a command, all of whose      *)
(* stacked successors have been deleted, ends in COMPLETE: it does not    *)
(* take the failure path, spends no retry, attaches no log, and deletes   *)
(* the record, with and without stats.                                    *)
C27_ShellCompletion ==
    (/\ RunEnded
     /\ run.pre.command = NoCommand
     /\ run.last.jobStoreID = run.id
     /\ \A g \in DOMAIN run.pre.stack : \A k \in DOMAIN run.pre.stack[g] :
           ~ExistsEntry(store, run.pre.stack[g][k])) =>
        /\ run.outcome = "COMPLETE"
        /\ ~run.workerFailed
        /\ run.log = None
        /\ run.last.stack = <<>>
        /\ run.last.remainingRetryCount = run.pre.remainingRetryCount
        /\ run.id \notin DOMAIN store

(* The top group of the stack has two or more successors *)
FanOut(job) == Len(job.stack) > 0 /\ Len(job.stack[Len(job.stack)]) >= 2

(* C28: when a payload has run to its end and the top group of J.stack has *)
(* two or more successors, the worker does not chain and ends in EXIT: no  *)
(* failure path, remainingRetryCount as it was, no log file, J persisted   *)
(* with that group on top and every successor of the group still there.    *)
C28_FanOutYield ==
    (/\ RunEnded
     /\ run.payloads # <<>>
     /\ ~run.raised
     /\ run.id \in DOMAIN store
     /\ FanOut(store[run.id])) =>
        /\ run.outcome = "EXIT"
        /\ ~run.workerFailed
        /\ run.chains = <<>>
        /\ run.log = None
        /\ store[run.id].logJobStoreFileID = None
        /\ store[run.id].remainingRetryCount = run.pre.remainingRetryCount
        /\ \A k \in DOMAIN store[run.id].stack[Len(store[run.id].stack)] :
              ExistsEntry(store, store[run.id].stack[Len(store[run.id].stack)][k])

(* The process leaves the teardown of a failed run *)
FailureEnds ==
    /\ w.pc = "finish"
    /\ w.workerFailed
    /\ w'.pc = "ended"
    /\ run'.outcome # "CRASHED"

C34_ShellPayload ==
    (/\ RunEnded
     /\ run.last.jobStoreID = run.id
     /\ run.pre.command # NoCommand
     /\ ~IsTargetCommand(run.pre.command)) =>
        /\ ~run.workerFailed
        /\ run.outcome \in {"COMPLETE", "EXIT"}
        /\ run.log = None

(* The steps of worker.main: a process that is not killed goes on *)
WorkerStep ==
    \/ Load
    \/ Prune
    \/ LoopTop
    \/ SpawnIntent
    \/ SpawnCreate
    \/ SpawnLink
    \/ PayloadRaise
    \/ Check
    \/ Chain
    \/ Stats
    \/ Except
    \/ Finish

(* Every payload execution and every store operation returns *)
FairSpec == Spec /\ WF_vars(WorkerStep)

(* C32: every worker invocation comes to an end, and one that was not     *)
(* killed ends in exactly one of the terminal states COMPLETE, EXIT and   *)
(* FAILED.                                                                *)
C32_WorkerTermination ==
    /\ [](RunEnded => run.outcome \in {"COMPLETE", "EXIT", "FAILED"})
    /\ (w.pc = "load") ~> (w.pc = "ended")

----------------------------------------------------------------------------
(* Two handles on one backing store (jobStoreTest.py:66-153): the leader's, *)
(* M, and a worker's, W.  A handle holds the record its last create or load *)
(* returned, an object the caller changes in place and hands to update.     *)

MaxHandleJobs == 2  \* records the two handles create between them

Handles == {"M", "W"}

(* What a handle holds: the record, and how it stands to the store:       *)
(* "created", "loaded" or "updated" by this handle and not persisted anew *)
(* since; "stale" once a handle has updated or deleted the record since;  *)
(* "dirty" once changed in place.                                         *)
NoHandle == [ job |-> NullJob, at |-> "none" ]

(* The other handle's view of record id after an update or delete of it *)
Outdated(h, id) ==
    IF h.job.jobStoreID = id /\ h.at # "none" THEN [h EXCEPT !.at = "stale"] ELSE h

Other(h) == CHOOSE o \in Handles : o # h

(* lines 68, 97-98: h.create(...) returns the record it has persisted *)
HandleCreate ==
    /\ Cardinality(usedIDs) < MaxHandleJobs
    /\ \E h \in Handles :
          LET job == NewJob(NextID, TargetCommand(1), 1, 1, 1, 0, config.try_count)
          IN /\ store' = Create(store, NextID, TargetCommand(1), 1, 1, 1, 0)
             /\ usedIDs' = usedIDs \cup {NextID}
             /\ hd' = [hd EXCEPT ![h] = [ job |-> job, at |-> "created" ],
                                 !.written = Update(@, job)]
    /\ UNCHANGED <<files, usedFiles, stats, config, w, sw, run, sp>>

(* lines 84, 108, 126-127: h.load(jobStoreID) *)
HandleLoad ==
    /\ \E h \in Handles : \E id \in DOMAIN store :
          hd' = [hd EXCEPT ![h] = [ job |-> store[id], at |-> "loaded" ]]
    /\ UNCHANGED <<store, usedIDs, files, usedFiles, stats, config, w, sw, run, sp>>

(* lines 94, 100-102: the caller changes the record it holds: it marks an *)
(* intent, or clears it and pushes a successor group                      *)
HandleChange ==
    /\ \E h \in Handles :
          /\ hd[h].at # "none"
          /\ \/ /\ hd[h].job.jobsToDelete = {}
                /\ hd' = [hd EXCEPT ![h].job.jobsToDelete = UpdateIDs, ![h].at = "dirty"]
             \/ /\ Len(hd[h].job.stack) = 0
                /\ \E c \in DOMAIN store \ {hd[h].job.jobStoreID} :
                      hd' = [hd EXCEPT ![h].job.jobsToDelete = {},
                                       ![h].job.stack = Append(@, <<Successor(c, 1, 1, None)>>),
                                       ![h].at = "dirty"]
    /\ UNCHANGED <<store, usedIDs, files, usedFiles, stats, config, w, sw, run, sp>>

(* lines 95, 123: h.update(job) *)
HandleUpdate ==
    /\ \E h \in Handles :
          /\ hd[h].at # "none"
          /\ Exists(store, hd[h].job.jobStoreID)
          /\ store' = Update(store, hd[h].job)
          /\ hd' = [hd EXCEPT ![h].at = "updated",
                              ![Other(h)] = Outdated(@, hd[h].job.jobStoreID),
                              !.written = [@ EXCEPT ![hd[h].job.jobStoreID] = hd[h].job]]
    /\ UNCHANGED <<usedIDs, files, usedFiles, stats, config, w, sw, run, sp>>

(* lines 141, 148: h.delete(jobStoreID) *)
HandleDelete ==
    /\ \E id \in DOMAIN store :
          /\ store' = Delete(store, id)
          /\ files' = DeleteFilesOf(files, id)
          /\ hd' = [hd EXCEPT !["M"] = Outdated(@, id), !["W"] = Outdated(@, id),
                              !.written = Delete(@, id)]
    /\ UNCHANGED <<usedIDs, usedFiles, stats, config, w, sw, run, sp>>

InitHandles ==
    /\ store = <<>>
    /\ usedIDs = {}
    /\ files = <<>>
    /\ usedFiles = {}
    /\ stats = 0
    /\ config \in [ stats : {FALSE}, try_count : 0 .. MaxRetry ]
    /\ w = IdleW
    /\ sw = NoSweep
    /\ run = NoRun
    /\ sp = NoSpawn
    /\ hd = [ M |-> NoHandle, W |-> NoHandle, written |-> <<>> ]

NextHandles ==
    \/ HandleCreate
    \/ HandleLoad
    \/ HandleChange
    \/ HandleUpdate
    \/ HandleDelete

SpecHandles == InitHandles /\ [][NextHandles]_vars

(* C10: a record one handle has created or updated is what either handle  *)
(* loads, field for field, until the next update or delete of its ID: the  *)
(* store holds the record last handed to create or update, a handle that   *)
(* has loaded holds that record, and so does the handle that persisted it. *)
C10_CrossInstance ==
    /\ DOMAIN hd.written = DOMAIN store
    /\ \A id \in DOMAIN store : store[id] = hd.written[id]
    /\ \A h \in Handles :
          hd[h].at \in {"created", "loaded", "updated"} =>
              /\ hd[h].job.jobStoreID \in DOMAIN store
              /\ hd[h].job = hd.written[hd[h].job.jobStoreID]

C10_Witness ==
    /\ hd["W"].at = "updated"
    /\ hd["M"].at = "loaded"
    /\ hd["M"].job.jobStoreID = hd["W"].job.jobStoreID
    /\ Len(hd["M"].job.stack) > 0
    /\ hd["M"].job = hd["W"].job

----------------------------------------------------------------------------
(* Operations of the two handles that race on the backing store.  A handle  *)
(* calls an operation; the operation takes effect in one step of the store  *)
(* (update and delete are atomic, abstractJobStore.py:106-121) and returns  *)
(* its result; between the call of one handle and its return the other      *)
(* handle's operations take effect.                                         *)

(* A handle that has called nothing yet *)
NoCall == [ op |-> "none", id |-> None, arg |-> NullJob, phase |-> "returned",
            result |-> <<>>, raised |-> "none", expect |-> <<>>, raced |-> FALSE ]

(* The record create persists, jobStoreTest.py:68 *)
RaceCreated(id) == NewJob(id, TargetCommand(1), 1, 1, 1, 0, config.try_count)

(* A successor for the record id to name in its stack *)
RaceSuccessor(id) == Successor((id % MaxHandleJobs) + 1, 1, 1, None)

(* What each handle hands to update, starting from the record as created: *)
(* M marks an intent (line 94), W pushes a successor group (lines 100-101) *)
RaceRecord(h, id) ==
    IF h = "M"
    THEN [RaceCreated(id) EXCEPT !.jobsToDelete = UpdateIDs]
    ELSE [RaceCreated(id) EXCEPT !.stack = <<<<RaceSuccessor(id)>>>>]

(* The IDs a caller can name: those create has returned or will return *)
RaceIDs == 1 .. MaxHandleJobs

RaceOps == {"create", "update", "delete", "load", "exists", "jobs"}

(* h calls an operation; nothing has happened in the store yet *)
RaceCall ==
    /\ \E h \in Handles : \E op \in RaceOps :
          /\ hd[h].phase = "returned"
          /\ IF op = "create"
             THEN /\ Cardinality(usedIDs) < MaxHandleJobs
                  /\ hd' = [hd EXCEPT ![h] = [NoCall EXCEPT !.op = op, !.phase = "called"]]
             ELSE IF op = "jobs"
             THEN hd' = [hd EXCEPT ![h] = [NoCall EXCEPT !.op = op, !.phase = "called"]]
             ELSE \E id \in IF op = "delete" THEN RaceIDs ELSE usedIDs :
                     hd' = [hd EXCEPT ![h] = [NoCall EXCEPT !.op = op, !.id = id,
                               !.arg = IF op = "update" THEN RaceRecord(h, id) ELSE NullJob,
                               !.phase = "called"]]
    /\ UNCHANGED <<store, usedIDs, files, usedFiles, stats, config, w, sw, run, sp>>

(* The call of h has returned with this result *)
Returned(h, result, expect) ==
    [hd[h] EXCEPT !.phase = "returned", !.result = result, !.expect = expect]

(* A write of the other handle takes effect while this call is in flight *)
Overlapped(call) == IF call.phase = "called" THEN [call EXCEPT !.raced = TRUE] ELSE call

(* The call of h has raised this exception *)
Raised(h, exception, expect) ==
    [hd[h] EXCEPT !.phase = "returned", !.raised = exception, !.expect = expect]

(* What was last handed to create or update for id, if the record is there *)
LastOf(id) == [ x \in DOMAIN hd.last \cap {id} |-> hd.last[x] ]

(* create takes effect: the record is persisted whole *)
RaceCreate ==
    /\ \E h \in Handles :
          /\ hd[h].op = "create" /\ hd[h].phase = "called"
          /\ Cardinality(usedIDs) < MaxHandleJobs
          /\ store' = Create(store, NextID, TargetCommand(1), 1, 1, 1, 0)
          /\ usedIDs' = usedIDs \cup {NextID}
          /\ hd' = [hd EXCEPT ![h] = [Returned(h, RaceCreated(NextID), hd.last)
                                        EXCEPT !.id = NextID],
                              ![Other(h)] = Overlapped(@),
                              !.last = Update(@, RaceCreated(NextID)),
                              !.ids = Append(@, NextID)]
    /\ UNCHANGED <<files, usedFiles, stats, config, w, sw, run, sp>>

(* update takes effect; a record that is gone is not brought back *)
RaceUpdate ==
    /\ \E h \in Handles :
          /\ hd[h].op = "update" /\ hd[h].phase = "called"
          /\ IF Exists(store, hd[h].id)
             THEN /\ store' = Update(store, hd[h].arg)
                  /\ hd' = [hd EXCEPT ![h] = Returned(h, <<>>, <<>>),
                                      ![Other(h)] = Overlapped(@),
                                      !.last = [@ EXCEPT ![hd[h].id] = hd[h].arg]]
             ELSE /\ UNCHANGED store
                  /\ hd' = [hd EXCEPT ![h] = Raised(h, "NoSuchJob", <<>>)]
    /\ UNCHANGED <<usedIDs, files, usedFiles, stats, config, w, sw, run, sp>>

(* delete takes effect; `expect` keeps the record that was deleted, if any *)
RaceDelete ==
    /\ \E h \in Handles :
          /\ hd[h].op = "delete" /\ hd[h].phase = "called"
          /\ IF DeleteRaises(store, hd[h].id)
             THEN /\ UNCHANGED <<store, files>>
                  /\ hd' = [hd EXCEPT ![h] = Raised(h, "NoSuchJob", <<>>)]
             ELSE /\ store' = Delete(store, hd[h].id)
                  /\ files' = DeleteFilesOf(files, hd[h].id)
                  /\ hd' = [hd EXCEPT ![h] = Returned(h, <<>>,
                                                 IF Exists(store, hd[h].id)
                                                 THEN <<store[hd[h].id]>> ELSE <<>>),
                                      ![Other(h)] = Overlapped(@),
                                      !.last = Delete(@, hd[h].id)]
    /\ UNCHANGED <<usedIDs, usedFiles, stats, config, w, sw, run, sp>>

(* load reads the record, or raises NoSuchJobException *)
RaceLoad ==
    /\ \E h \in Handles :
          /\ hd[h].op = "load" /\ hd[h].phase = "called"
          /\ hd' = [hd EXCEPT ![h] =
                       IF Exists(store, hd[h].id)
                       THEN Returned(h, store[hd[h].id], LastOf(hd[h].id))
                       ELSE Raised(h, "NoSuchJob", LastOf(hd[h].id))]
    /\ UNCHANGED <<store, usedIDs, files, usedFiles, stats, config, w, sw, run, sp>>

(* exists reads whether the record is there *)
RaceExists ==
    /\ \E h \in Handles :
          /\ hd[h].op = "exists" /\ hd[h].phase = "called"
          /\ hd' = [hd EXCEPT ![h] = Returned(h, Exists(store, hd[h].id),
                                                 LastOf(hd[h].id))]
    /\ UNCHANGED <<store, usedIDs, files, usedFiles, stats, config, w, sw, run, sp>>

(* jobs() reads the records of the store *)
RaceJobs ==
    /\ \E h \in Handles :
          /\ hd[h].op = "jobs" /\ hd[h].phase = "called"
          /\ hd' = [hd EXCEPT ![h] =
                       Returned(h, [ k \in 1 .. Len(Jobs(store)) |-> store[Jobs(store)[k]] ],
                                hd.last)]
    /\ UNCHANGED <<store, usedIDs, files, usedFiles, stats, config, w, sw, run, sp>>

InitRace ==
    /\ store = <<>>
    /\ usedIDs = {}
    /\ files = <<>>
    /\ usedFiles = {}
    /\ stats = 0
    /\ config = [ stats |-> FALSE, try_count |-> 1 ]
    /\ w = IdleW
    /\ sw = NoSweep
    /\ run = NoRun
    /\ sp = NoSpawn
    /\ hd = [ M |-> NoCall, W |-> NoCall,
              last |-> <<>>,    \* per ID, the record last handed to create or update
              ids |-> <<>> ]    \* the jobStoreIDs create has returned, in order

NextRace ==
    \/ RaceCall
    \/ RaceCreate
    \/ RaceUpdate
    \/ RaceDelete
    \/ RaceLoad
    \/ RaceExists
    \/ RaceJobs

SpecRace == InitRace /\ [][NextRace]_vars

(* The whole records a writer can have written for id *)
WholeRecords(id) == { RaceCreated(id), RaceRecord("M", id), RaceRecord("W", id) }

(* C11: when updates of one jobStoreID race with each other and with load,  *)
(* exists and jobs(), every record an observer reads is a whole record that *)
(* the create or one single update wrote, never a mix of the fields of two  *)
(* writers, and the persisted record is that of the last writer.            *)
C11_UpdateAtomic ==
    /\ \A id \in DOMAIN store :
          /\ store[id] \in WholeRecords(id)
          /\ store[id] = hd.last[id]
    /\ \A h \in Handles :
          /\ (hd[h].op = "load" /\ hd[h].phase = "returned" /\ hd[h].raised = "none") =>
                /\ hd[h].result \in WholeRecords(hd[h].id)
                /\ hd[h].result = hd[h].expect[hd[h].id]
          /\ (hd[h].op = "exists" /\ hd[h].phase = "returned") =>
                hd[h].result = (hd[h].id \in DOMAIN hd[h].expect)
          /\ (hd[h].op = "jobs" /\ hd[h].phase = "returned") =>
                \A k \in 1 .. Len(hd[h].result) :
                    hd[h].result[k] \in WholeRecords(hd[h].result[k].jobStoreID)

(* M's update took effect between the call and the return of W's load of *)
(* the same record, and W has read what M wrote                          *)
C11_Witness ==
    /\ hd["M"].op = "update" /\ hd["M"].phase = "returned" /\ hd["M"].raised = "none"
    /\ hd["W"].op = "load" /\ hd["W"].phase = "returned" /\ hd["W"].raised = "none"
    /\ hd["W"].raced
    /\ hd["W"].id = hd["M"].id
    /\ hd["W"].result = RaceRecord("M", hd["M"].id)

(* The call of h takes effect and returns in this step *)
TakesEffect(h, op) ==
    hd[h].op = op /\ hd[h].phase = "called" /\ hd'[h].phase = "returned"

(* C12: once delete(id) has returned for a record, the record is gone for  *)
(* good: exists(id) is false and load(id) raises NoSuchJobException on     *)
(* every handle; the delete leaves every other record, the successors      *)
(* named in the deleted record's stack among them, persisted as it was.    *)
C12_DeleteEffect ==
    /\ [](\A h \in Handles :
            (hd[h].op = "delete" /\ hd[h].phase = "returned" /\ hd[h].expect # <<>>) =>
                ~Exists(store, hd[h].id))
    /\ [][\A h \in Handles :
            /\ TakesEffect(h, "delete") =>
                  /\ ~Exists(store', hd[h].id)
                  /\ \A j \in DOMAIN store \ {hd[h].id} :
                        j \in DOMAIN store' /\ store'[j] = store[j]
            /\ TakesEffect(h, "load") =>
                  (hd'[h].raised = "NoSuchJob" <=> ~Exists(store, hd[h].id))
            /\ TakesEffect(h, "exists") =>
                  (hd'[h].result = FALSE <=> ~Exists(store, hd[h].id))
       ]_vars

(* M has deleted a record whose stack names a successor that is still *)
(* there, and W's load of the deleted record has raised               *)
C12_Witness ==
    /\ hd["M"].op = "delete" /\ hd["M"].phase = "returned" /\ hd["M"].expect # <<>>
    /\ Len(hd["M"].expect[1].stack) > 0
    /\ Exists(store, hd["M"].expect[1].stack[1][1][1])
    /\ hd["W"].op = "load" /\ hd["W"].phase = "returned" /\ hd["W"].id = hd["M"].id
    /\ hd["W"].raised = "NoSuchJob"

Yielded(h) == { hd[h].result[k].jobStoreID : k \in DOMAIN hd[h].result }

(* C17: jobs() called while no create, update or delete takes effect yields *)
(* each record that was created and not deleted, once, in the state of its  *)
(* last update, and nothing else; in every case what it yields is a whole   *)
(* record, never a partly created one.                                      *)
C17_Enumeration ==
    \A h \in Handles :
        (hd[h].op = "jobs" /\ hd[h].phase = "returned") =>
            /\ ~hd[h].raced =>
                  /\ Yielded(h) = DOMAIN hd[h].expect
                  /\ Cardinality(Yielded(h)) = Len(hd[h].result)
                  /\ \A k \in DOMAIN hd[h].result :
                        hd[h].result[k] = hd[h].expect[hd[h].result[k].jobStoreID]
            /\ \A k \in DOMAIN hd[h].result :
                  /\ hd[h].result[k].jobStoreID \in usedIDs
                  /\ hd[h].result[k] \in WholeRecords(hd[h].result[k].jobStoreID)

(* jobs() has yielded an updated record and not a record deleted before it *)
C17_Witness ==
    \E h \in Handles :
        /\ hd[h].op = "jobs" /\ hd[h].phase = "returned" /\ ~hd[h].raced
        /\ \E k \in DOMAIN hd[h].result :
              hd[h].result[k] # RaceCreated(hd[h].result[k].jobStoreID)
        /\ \E i \in DOMAIN hd.ids : hd.ids[i] \notin Yielded(h)
        /\ \A i \in DOMAIN hd.ids : hd.ids[i] \notin Yielded(h) => ~Exists(store, hd.ids[i])

-----------------------------------------------------------------------------
(* The store's interface used by one caller: records are created and      *)
(* deleted, per-job files are written under an owner, read and deleted.   *)
(* hd holds the last call, its arguments and what it returned or raised,  *)
(* and for every file ever written its owner and whether deleteFile was   *)
(* called on it.                                                          *)

MaxStoreFiles == 2  \* per-job files written

StoreFileIDs == 1 .. MaxStoreFiles

NextStoreFile ==
    CHOOSE i \in StoreFileIDs \ usedFiles : \A j \in StoreFileIDs \ usedFiles : i <= j

(* The argument lists of create in the test: without predecessorNumber *)
(* (line 68) and with it (line 97)                                     *)
CreateArgs ==
    { [ command |-> TargetCommand(1), memory |-> 2, cpu |-> 1, updateID |-> 1,
        given |-> FALSE, predecessorNumber |-> 0 ],
      [ command |-> TargetCommand(2), memory |-> 1, cpu |-> 2, updateID |-> 2,
        given |-> TRUE, predecessorNumber |-> 1 ] }

(* predecessorNumber of a record created without one (line 76) *)
PredecessorNumberOf(a) == IF a.given THEN a.predecessorNumber ELSE 0

(* The three ways to write a new per-job file *)
WriteOps == {"writeFile", "writeFileStream", "getEmptyFileStoreID"}

NoStoreCall ==
    [ op |-> "none", id |-> None, args |-> CHOOSE a \in CreateArgs : ~a.given,
      result |-> NullJob, raised |-> "none",
      owner |-> <<>>, explicit |-> {} ]

StoreCalled(op, id, raised) == [hd EXCEPT !.op = op, !.id = id, !.raised = raised]

StoreCreate ==
    /\ Cardinality(usedIDs) < MaxHandleJobs
    /\ \E a \in CreateArgs :
          /\ store' = Create(store, NextID, a.command, a.memory, a.cpu, a.updateID,
                             PredecessorNumberOf(a))
          /\ hd' = [StoreCalled("create", NextID, "none")
                      EXCEPT !.args = a, !.result = store'[NextID]]
    /\ usedIDs' = usedIDs \cup {NextID}
    /\ UNCHANGED <<files, usedFiles, stats, config, w, sw, run, sp>>

StoreDelete ==
    /\ \E id \in usedIDs :
          /\ store' = Delete(store, id)
          /\ files' = DeleteFilesOf(files, id)
          /\ hd' = StoreCalled("delete", id, "none")
    /\ UNCHANGED <<usedIDs, usedFiles, stats, config, w, sw, run, sp>>

(* writeFile, writeFileStream, getEmptyFileStoreID: a new file under an owner *)
StoreWrite ==
    /\ Cardinality(usedFiles) < MaxStoreFiles
    /\ \E op \in WriteOps, owner \in DOMAIN store :
          /\ files' = WriteFile(files, NextStoreFile, owner)
          /\ hd' = [StoreCalled(op, NextStoreFile, "none")
                      EXCEPT !.owner = WriteFile(@, NextStoreFile, owner)]
    /\ usedFiles' = usedFiles \cup {NextStoreFile}
    /\ UNCHANGED <<store, usedIDs, stats, config, w, sw, run, sp>>

(* deleteFile "throws an exception if the file does not exist" *)
StoreDeleteFile ==
    /\ \E fid \in usedFiles :
          IF fid \in DOMAIN files
          THEN /\ files' = DeleteFile(files, fid)
               /\ hd' = [StoreCalled("deleteFile", fid, "none")
                           EXCEPT !.explicit = @ \cup {fid}]
          ELSE /\ UNCHANGED files
               /\ hd' = StoreCalled("deleteFile", fid, "NoSuchFile")
    /\ UNCHANGED <<store, usedIDs, usedFiles, stats, config, w, sw, run, sp>>

(* readFileStream raises NoSuchFileException on a file that is gone *)
StoreRead ==
    /\ \E fid \in usedFiles :
          hd' = StoreCalled("readFileStream", fid,
                            IF fid \in DOMAIN files THEN "none" ELSE "NoSuchFile")
    /\ UNCHANGED <<store, usedIDs, files, usedFiles, stats, config, w, sw, run, sp>>

InitStore ==
    /\ store = <<>>
    /\ usedIDs = {}
    /\ files = <<>>
    /\ usedFiles = {}
    /\ stats = 0
    /\ config = [ stats |-> FALSE, try_count |-> 1 ]
    /\ w = IdleW
    /\ sw = NoSweep
    /\ run = NoRun
    /\ sp = NoSpawn
    /\ hd = NoStoreCall

NextStore ==
    \/ StoreCreate
    \/ StoreDelete
    \/ StoreWrite
    \/ StoreDeleteFile
    \/ StoreRead

SpecStore == InitStore /\ [][NextStore]_vars

(* C14: a file written under owner J, by any of the three ways, and not   *)
(* deleted with deleteFile is there exactly as long as J is: once         *)
(* delete(J) has returned readFileStream on it raises NoSuchFileException, *)
(* and the files of the other records stay readable.                      *)
C14_FileOwnership ==
    /\ \A f \in DOMAIN hd.owner :
          f \in DOMAIN files <=> (Exists(store, hd.owner[f]) /\ f \notin hd.explicit)
    /\ hd.op = "readFileStream" =>
          (hd.raised = "NoSuchFile" <=>
              (~Exists(store, hd.owner[hd.id]) \/ hd.id \in hd.explicit))

(* Two records own a file each; one record was deleted, the read of its *)
(* file has raised, and the other record's file is still there          *)
C14_Witness ==
    /\ hd.op = "readFileStream" /\ hd.raised = "NoSuchFile"
    /\ hd.id \notin hd.explicit
    /\ ~Exists(store, hd.owner[hd.id])
    /\ \E f \in DOMAIN files : hd.owner[f] # hd.owner[hd.id]

-----------------------------------------------------------------------------
(* The statistics and logging store: writeStatsAndLogging accumulates      *)
(* blobs, readStatsAndLogging hands each one to the caller's callback and  *)
(* removes it.  stats counts the blobs written, numbered in order; hd      *)
(* holds the blobs that are there, and the history of the reads.           *)

MaxBlobs == 3       \* blobs writeStatsAndLogging is called with

MaxReads == 3       \* calls of readStatsAndLogging

NoRead ==
    [ pc |-> "idle",        \* "idle", "reading", "returned", "raised"
      snapshot |-> {},      \* the blobs accumulated when the read started
      todo |-> {},          \* those the callback was not called on yet
      gone |-> {},          \* those this read removed
      failed |-> None,      \* the blob on which the callback failed
      result |-> 0 ]        \* the number the read returned

(* A variant for comparison: the blob is removed before the callback is *)
(* known to have returned normally                                      *)
DrainBlobAlways(blobs, b, ok) == blobs \ {b}

(* The blob is removed "only after callback returns normally" *)
DrainBlob(blobs, b, ok) == IF ok THEN blobs \ {b} ELSE blobs

(* writeStatsAndLogging(statsAndLoggingString) *)
StatsWrite ==
    /\ stats < MaxBlobs
    /\ stats' = stats + 1
    /\ hd' = [hd EXCEPT !.blobs = @ \cup {stats + 1}]
    /\ UNCHANGED <<store, usedIDs, files, usedFiles, config, w, sw, run, sp>>

(* readStatsAndLogging(callback) starts on the blobs accumulated so far *)
StatsReadBegin ==
    /\ hd.read.pc # "reading"
    /\ hd.reads < MaxReads
    /\ hd' = [hd EXCEPT !.reads = @ + 1,
                        !.read = [NoRead EXCEPT !.pc = "reading",
                                                !.snapshot = hd.blobs,
                                                !.todo = hd.blobs]]
    /\ UNCHANGED <<store, usedIDs, files, usedFiles, stats, config, w, sw, run, sp>>

(* The callback is called on one of the blobs, in no particular order, and *)
(* returns or raises; with no blob left the read returns the number        *)
(* processed.                                                              *)
StatsCallback ==
    /\ hd.read.pc = "reading"
    /\ IF hd.read.todo = {}
       THEN hd' = [hd EXCEPT !.read.pc = "returned",
                             !.read.result = Cardinality(hd.read.gone)]
       ELSE \E b \in hd.read.todo, ok \in BOOLEAN :
               hd' = [hd EXCEPT !.blobs = DrainBlob(@, b, ok),
                                !.removed = IF ok THEN @ \cup {b} ELSE @,
                                !.calls[b] = @ + 1,
                                !.late = @ \cup ({b} \cap hd.removed),
                                !.read.todo = @ \ {b},
                                !.read.gone = IF ok THEN @ \cup {b} ELSE @,
                                !.read.failed = IF ok THEN None ELSE b,
                                !.read.pc = IF ok THEN "reading" ELSE "raised"]
    /\ UNCHANGED <<store, usedIDs, files, usedFiles, stats, config, w, sw, run, sp>>

InitStats ==
    /\ store = <<>>
    /\ usedIDs = {}
    /\ files = <<>>
    /\ usedFiles = {}
    /\ stats = 0
    /\ config = [ stats |-> TRUE, try_count |-> 1 ]
    /\ w = IdleW
    /\ sw = NoSweep
    /\ run = NoRun
    /\ sp = NoSpawn
    /\ hd = [ blobs |-> {},                     \* the blobs in the store
              removed |-> {},                   \* the blobs a read removed
              calls |-> [ b \in 1 .. MaxBlobs |-> 0 ],  \* callbacks per blob, failed ones included
              late |-> {},                      \* blobs delivered after their removal
              reads |-> 0,                      \* reads started
              read |-> NoRead ]

NextStats ==
    \/ StatsWrite
    \/ StatsReadBegin
    \/ StatsCallback

SpecStats == InitStats /\ [][NextStats]_vars

(* C21: a read calls the callback once on each accumulated blob and removes *)
(* a blob only when its callback returned normally; when a callback fails   *)
(* that blob and the blobs not yet processed stay for a later read; a blob  *)
(* that was removed is never delivered again; the number returned is the    *)
(* number of blobs removed.  No blob written is lost.                       *)
C21_StatsDrain ==
    /\ hd.late = {}
    /\ hd.blobs \cup hd.removed = 1 .. stats
    /\ hd.blobs \cap hd.removed = {}
    /\ \A b \in hd.removed : hd.calls[b] >= 1
    /\ hd.read.gone \subseteq hd.removed
    /\ hd.read.pc = "returned" =>
          /\ hd.read.result = Cardinality(hd.read.gone)
          /\ hd.read.gone = hd.read.snapshot
    /\ hd.read.pc = "raised" =>
          /\ hd.read.failed \in hd.blobs
          /\ hd.read.todo \subseteq hd.blobs
          /\ hd.read.snapshot = hd.read.gone \cup {hd.read.failed} \cup hd.read.todo

(* A read failed on a blob after removing another one and left a third;   *)
(* a later read returned having removed what was left                     *)
C21_Witness ==
    /\ hd.read.pc = "returned"
    /\ hd.read.result >= 2
    /\ \E b \in hd.read.gone : hd.calls[b] = 2
    /\ hd.removed \ hd.read.gone # {}

-----------------------------------------------------------------------------
(* Files written through scopes: writeFileStream yields a new per-job file *)
(* ID, updateFile, updateFileStream and writeSharedFileStream replace the  *)
(* content under an existing key; the content is committed when the scope  *)
(* exits.  Two handles open and exit scopes, a reader reads.  hd holds the *)
(* committed content and the generation of every key, each handle's scope, *)
(* the contents that have ever been committed, and the last read.          *)

MaxScopes == 3      \* scopes opened; the n-th scope writes content n

StreamKeys == { <<"job", f>> : f \in StoreFileIDs } \cup { <<"shared", 1>> }

UpdateOps == {"updateFile", "updateFileStream", "writeSharedFileStream"}

NoScope ==
    [ op |-> "none", key |-> <<"job", None>>,
      base |-> 0,           \* the generation of the key when the scope was entered
      data |-> 0,           \* the content written in the scope
      phase |-> "none",     \* "none", "open", "committed", "failed", "raised"
      overlapped |-> FALSE ]  \* another scope on the key was open at the same time

(* A variant for comparison: a scope left through an error commits what was *)
(* written so far                                                           *)
CommitsPartial(op, generation, base, ok) == op = "writeFileStream" \/ generation = base

(* The content is committed on scope exit, if no error, and for an update *)
(* if no other update committed while this one was in flight              *)
Commits(op, generation, base, ok) == ok /\ (op = "writeFileStream" \/ generation = base)

(* A variant for comparison: the update that lost reports success *)
UpdateOutcomeSilent(generation, base) == "committed"

(* ConcurrentFileModificationException "if the file was modified *)
(* concurrently during an invocation of this method"             *)
UpdateOutcome(generation, base) ==
    IF generation = base THEN "committed" ELSE "raised"

(* A scope is entered *)
StreamOpen ==
    /\ hd.scopes < MaxScopes
    /\ \E h \in Handles :
          /\ hd[h].phase # "open"
          /\ \/ /\ StoreFileIDs \ usedFiles # {}
                /\ usedFiles' = usedFiles \cup {NextStoreFile}
                /\ hd' = [hd EXCEPT !.scopes = @ + 1,
                                    ![h] = [NoScope EXCEPT !.op = "writeFileStream",
                                                           !.key = <<"job", NextStoreFile>>,
                                                           !.data = hd.scopes + 1,
                                                           !.phase = "open"]]
             \/ /\ UNCHANGED usedFiles
                /\ \E op \in UpdateOps, key \in DOMAIN hd.content :
                      /\ key[1] = IF op = "writeSharedFileStream" THEN "shared" ELSE "job"
                      /\ LET both == hd[Other(h)].phase = "open" /\ hd[Other(h)].key = key
                         IN hd' = [hd EXCEPT !.scopes = @ + 1,
                                             ![h] = [NoScope EXCEPT !.op = op,
                                                                    !.key = key,
                                                                    !.base = hd.gen[key],
                                                                    !.data = hd.scopes + 1,
                                                                    !.phase = "open",
                                                                    !.overlapped = both],
                                             ![Other(h)].overlapped = @ \/ both]
    /\ UNCHANGED <<store, usedIDs, files, stats, config, w, sw, run, sp>>

(* The scope is left, normally or through an error *)
StreamExit ==
    /\ \E h \in Handles, ok \in BOOLEAN :
          /\ hd[h].phase = "open"
          /\ LET key == hd[h].key
                 commits == Commits(hd[h].op, hd.gen[key], hd[h].base, ok)
             IN hd' = [hd EXCEPT
                   !.content = IF commits
                               THEN [ k \in DOMAIN @ \cup {key} |->
                                        IF k = key THEN hd[h].data ELSE @[k] ]
                               ELSE @,
                   !.gen[key] = IF commits THEN @ + 1 ELSE @,
                   !.committed = IF commits THEN @ \cup {<<key, hd[h].data>>} ELSE @,
                   ![h].phase = IF ~ok THEN "failed"
                                ELSE IF hd[h].op = "writeFileStream" THEN "committed"
                                ELSE UpdateOutcome(hd.gen[key], hd[h].base)]
    /\ UNCHANGED <<store, usedIDs, files, usedFiles, stats, config, w, sw, run, sp>>

(* readFileStream, readSharedFileStream: the committed content, or *)
(* NoSuchFileException                                             *)
StreamRead ==
    /\ \E key \in StreamKeys :
          hd' = [hd EXCEPT !.read =
                    IF key \in DOMAIN hd.content
                    THEN [ key |-> key, raised |-> "none", data |-> hd.content[key] ]
                    ELSE [ key |-> key, raised |-> "NoSuchFile", data |-> 0 ]]
    /\ UNCHANGED <<store, usedIDs, files, usedFiles, stats, config, w, sw, run, sp>>

(* File 1 (from getEmptyFileStoreID) and the shared file exist, empty *)
InitStreams ==
    /\ store = <<>>
    /\ usedIDs = {}
    /\ files = <<>>
    /\ usedFiles = {1}
    /\ stats = 0
    /\ config = [ stats |-> FALSE, try_count |-> 1 ]
    /\ w = IdleW
    /\ sw = NoSweep
    /\ run = NoRun
    /\ sp = NoSpawn
    /\ hd = [ content |-> [ k \in { <<"job", 1>>, <<"shared", 1>> } |-> 0 ],
              gen |-> [ k \in StreamKeys |-> 0 ],
              committed |-> {},
              scopes |-> 0,
              M |-> NoScope, W |-> NoScope,
              read |-> [ key |-> <<"job", None>>, raised |-> "none", data |-> 0 ] ]

NextStreams ==
    \/ StreamOpen
    \/ StreamExit
    \/ StreamRead

SpecStreams == InitStreams /\ [][NextStreams]_vars

(* The scope of h is left in this step through an error *)
ExitsThroughError(h) == hd[h].phase = "open" /\ hd'[h].phase = "failed"

(* C22: a writeFileStream scope left through an error leaves no file under *)
(* the ID it yielded, so that readFileStream of that ID raises on every    *)
(* handle; an updateFileStream scope left through an error leaves the      *)
(* content committed before in place.                                      *)
C22_StreamAtomicity ==
    /\ [](\A h \in Handles :
            /\ (hd[h].op = "writeFileStream" /\ hd[h].phase \in {"open", "failed"}) =>
                  /\ hd[h].key \notin DOMAIN hd.content
                  /\ hd.read.key = hd[h].key => hd.read.raised = "NoSuchFile"
            /\ (hd[h].op \in UpdateOps /\ hd[h].phase = "failed") =>
                  <<hd[h].key, hd[h].data>> \notin hd.committed)
    /\ [][\A h \in Handles : ExitsThroughError(h) => hd'.content = hd.content]_vars

(* A writeFileStream scope was left through an error and a read of the ID *)
(* it yielded has raised, and the other handle's updateFileStream scope   *)
(* was left through an error after content had been committed             *)
C22_Witness ==
    \E h \in Handles :
        /\ hd[h].op = "writeFileStream" /\ hd[h].phase = "failed"
        /\ hd.read.key = hd[h].key /\ hd.read.raised = "NoSuchFile"
        /\ hd[Other(h)].op = "updateFileStream" /\ hd[Other(h)].phase = "failed"
        /\ hd.content[hd[Other(h)].key] # 0

(* C23: of two updates of one key whose scopes overlap, at least one fails *)
(* with ConcurrentFileModificationException; otherwise they take effect    *)
(* one after the other.  Whenever both have reported success the content   *)
(* of each was committed, hence readable, and the key holds the content of *)
(* one of them or of a later writer.                                       *)
C23_RacingUpdates ==
    \A h \in Handles :
        (hd[h].op \in UpdateOps /\ hd[h].phase = "committed") =>
            /\ <<hd[h].key, hd[h].data>> \in hd.committed
            /\ hd.content[hd[h].key] >= hd[h].data
            /\ (hd[h].overlapped /\ hd[Other(h)].key = hd[h].key
                  /\ hd[Other(h)].overlapped /\ hd[Other(h)].phase # "open") =>
                  hd[Other(h)].phase \in {"raised", "failed"}

(* Two updateFileStream scopes on one file overlapped, both were left *)
(* normally: one has committed and the other has raised               *)
C23_Witness ==
    \E h \in Handles :
        /\ hd[h].op = "updateFileStream" /\ hd[h].phase = "committed"
        /\ hd[h].overlapped
        /\ hd[Other(h)].op = "updateFileStream" /\ hd[Other(h)].phase = "raised"
        /\ hd[Other(h)].key = hd[h].key
        /\ hd.content[hd[h].key] = hd[h].data

----------------------------------------------------------------------------
(* The start of a worker on stores a client of the job store can leave:    *)
(* record 1 with or without a command, with groups over the records 2 and  *)
(* 3 on its stack and intent markers, and any of the records 2 and 3.  The *)
(* process opens the store (the sweep), loads its record and cleans up.    *)

PruneParents ==
    { [ SweepRecord(1, 1, d, st, None) EXCEPT !.command = c ] :
        c \in {TargetCommand(1), NoCommand}, d \in Markers, st \in SweepStacks }

PruneLeaves(id) == { SweepRecord(id, u, {}, <<>>, None) : u \in {1, 2} }

InitPrune ==
    /\ \E p \in PruneParents :
       \E S \in SUBSET {2, 3} :
       \E l2 \in PruneLeaves(2) :
       \E l3 \in PruneLeaves(3) :
          store = [ i \in {1} \cup S |-> IF i = 1 THEN p ELSE IF i = 2 THEN l2 ELSE l3 ]
    /\ usedIDs = SweepIDs
    /\ files = <<>>
    /\ usedFiles = {}
    /\ stats = 0
    /\ config = [ stats |-> FALSE, try_count |-> 1 ]
    /\ w = IdleW
    /\ sw = NoSweep
    /\ run = NoRun
    /\ sp = NoSpawn
    /\ hd = <<>>

NextPrune ==
    \/ OpenStore
    \/ CleanCollect
    \/ CleanDelete
    \/ CleanRepair
    \/ StartWorker
    \/ Load
    \/ Prune

SpecPrune == InitPrune /\ [][NextPrune]_vars

(* The cleanup step of the worker has been taken *)
Cleaned == w.pc = "prune" /\ w'.pc = "loop"

----------------------------------------------------------------------------
(* A retry: the store holds one record that carries the log file ID of an   *)
(* earlier attempt, as a client of the store that uploads a log and updates *)
(* the record leaves it; the file exists, or is gone already.               *)

(* The ID of the log file of the earlier attempt *)
OldLog == MaxFiles + 1

InitRetry ==
    /\ config \in [ stats : BOOLEAN, try_count : 0 .. MaxRetry ]
    /\ \E c \in {TargetCommand(1), ShellCommand(1)} :
       \E r \in 0 .. MaxRetry :
          /\ r <= config.try_count
          /\ store = [ i \in {1} |->
                         [ NewJob(1, c, 1, 1, 1, 0, r) EXCEPT !.logJobStoreFileID = OldLog ] ]
    /\ usedIDs = {1}
    /\ files \in { [ f \in {OldLog} |-> 1 ], <<>> }
    /\ usedFiles = {OldLog}
    /\ stats = 0
    /\ w = IdleW
    /\ sw = NoSweep
    /\ run = NoRun
    /\ sp = NoSpawn
    /\ hd = <<>>

NextRetry ==
    \/ OpenStore
    \/ CleanCollect
    \/ CleanDelete
    \/ CleanRepair
    \/ CloseStore
    \/ StartWorker
    \/ Crash
    \/ Reap
    \/ Load
    \/ Prune
    \/ LoopTop
    \/ SpawnIntent
    \/ SpawnCreate
    \/ SpawnLink
    \/ PayloadRaise
    \/ Check
    \/ Chain
    \/ Stats
    \/ Except
    \/ Finish

SpecRetry == InitRetry /\ [][NextRetry]_vars

(* C31: when J carried the log file ID of a failed attempt as a worker was *)
(* started on it and that run ends without failure (COMPLETE or EXIT), the *)
(* log file no longer exists and J, if still persisted, has no log file ID *)
C31_LogCleared ==
    (/\ RunEnded
     /\ run.outcome \in {"COMPLETE", "EXIT"}
     /\ run.pre.logJobStoreFileID # None) =>
        /\ ~run.workerFailed
        /\ run.pre.logJobStoreFileID \notin DOMAIN files
        /\ run.id \in DOMAIN store => store[run.id].logJobStoreFileID = None

(* A run on a record with a log has ended in EXIT, the record persisted *)
C31_Witness ==
    /\ RunEnded
    /\ run.outcome = "EXIT"
    /\ run.pre.logJobStoreFileID = OldLog
    /\ run.id \in DOMAIN store
    /\ store[run.id].logJobStoreFileID = None
    /\ OldLog \notin DOMAIN files

----------------------------------------------------------------------------
(* The file descriptors of a worker process, worker.py:173-185 and 400-412. *)
(* The process is started with descriptors 0, 1 and 2 open on files of the  *)
(* batch system's choice, and possibly with descriptor 3 inherited.         *)

MaxFd == 6          \* the descriptors are 0 .. MaxFd

(* The files the batch system starts the process on *)
StdFiles == {"tty", "out", "err"}

(* os.dup and os.open return the lowest descriptor that is not open *)
LowestFree(fd) ==
    CHOOSE n \in DOMAIN fd : fd[n] = "closed" /\ \A m \in DOMAIN fd : m < n => fd[m] # "closed"

(* lines 173-185: save stdout and stderr, open the log, put it on 1 and 2, *)
(* close the descriptor the log was opened on                              *)
FdRedirect ==
    /\ hd.pc = "start"
    /\ LET origStdOut == LowestFree(hd.fd)
           t1 == [hd.fd EXCEPT ![origStdOut] = hd.fd[1]]
           origStdErr == LowestFree(t1)
           t2 == [t1 EXCEPT ![origStdErr] = t1[2]]
           logFh == LowestFree(t2)
           t3 == [t2 EXCEPT ![logFh] = "worker_log.txt"]
           t4 == [t3 EXCEPT ![1] = t3[logFh], ![2] = t3[logFh]]
       IN hd' = [hd EXCEPT !.pc = "trapped",
                           !.fd = [t4 EXCEPT ![logFh] = "closed"],
                           !.origStdOut = origStdOut,
                           !.origStdErr = origStdErr]
    /\ UNCHANGED <<store, usedIDs, files, usedFiles, stats, config, w, sw, run, sp>>

(* lines 207-386: the try block and its except clause, which leave the *)
(* descriptors alone; the run is on its way to one of its ends         *)
FdBody ==
    /\ hd.pc = "trapped"
    /\ \E outcome \in {"COMPLETE", "EXIT", "FAILED"} :
          hd' = [hd EXCEPT !.pc = "cleanup", !.outcome = outcome]
    /\ UNCHANGED <<store, usedIDs, files, usedFiles, stats, config, w, sw, run, sp>>

(* lines 400-412: os.dup2(origStdOut, 1), os.dup2(origStdOut, 2), and the *)
(* two saved descriptors are closed                                       *)
FdRestore ==
    /\ hd.pc = "cleanup"
    /\ LET t1 == [hd.fd EXCEPT ![1] = hd.fd[hd.origStdOut]]
           t2 == [t1 EXCEPT ![2] = t1[hd.origStdOut]]
       IN hd' = [hd EXCEPT !.pc = "finished",
                           !.fd = [t2 EXCEPT ![hd.origStdOut] = "closed",
                                             ![hd.origStdErr] = "closed"]]
    /\ UNCHANGED <<store, usedIDs, files, usedFiles, stats, config, w, sw, run, sp>>

InitFds ==
    /\ store = <<>>
    /\ usedIDs = {}
    /\ files = <<>>
    /\ usedFiles = {}
    /\ stats = 0
    /\ config = [ stats |-> FALSE, try_count |-> 1 ]
    /\ w = IdleW
    /\ sw = NoSweep
    /\ run = NoRun
    /\ sp = NoSpawn
    /\ \E in \in StdFiles, out \in StdFiles, err \in StdFiles,
          third \in StdFiles \cup {"closed"} :
          hd = [ pc |-> "start",
                 fd |-> [ n \in 0 .. MaxFd |->
                            CASE n = 0 -> in [] n = 1 -> out [] n = 2 -> err
                              [] n = 3 -> third [] OTHER -> "closed" ],
                 stdout |-> out,        \* the file of descriptor 1 at the start
                 stderr |-> err,        \* the file of descriptor 2 at the start
                 origStdOut |-> 0,
                 origStdErr |-> 0,
                 outcome |-> "none" ]

NextFds ==
    \/ FdRedirect
    \/ FdBody
    \/ FdRestore

SpecFds == InitFds /\ [][NextFds]_vars

(* C35: when the worker finishes, in each of COMPLETE, EXIT and FAILED,    *)
(* descriptor 1 is on the file that was the process's stdout before the    *)
(* redirection and descriptor 2 on the file that was its stderr.           *)
C35_DescriptorsRestored ==
    hd.pc = "finished" =>
        /\ hd.fd[1] = hd.stdout
        /\ hd.fd[2] = hd.stderr

----------------------------------------------------------------------------
(* A worker that is alive and another process starting: the live worker has *)
(* loaded record 1 and its payload goes through the spawn protocol (spec    *)
(* 4.5; jobStoreTest.py:94-106) while a new process opens its own handle on *)
(* the store (worker.py:128), whose constructor sweeps (lines 25-43).  The  *)
(* live worker's locals are in hd.                                          *)

(* Step 1 of the live worker: jobsToDelete := {u}; update(P) *)
LiveIntent ==
    /\ hd.pc = "payload"
    /\ \E n \in 1 .. MaxJobs - 1 : \E u \in UpdateIDs \ {hd.job.updateID} :
          LET job1 == [hd.job EXCEPT !.jobsToDelete = {u}]
          IN /\ store' = Update(store, job1)
             /\ hd' = [hd EXCEPT !.pc = "create", !.job = job1, !.n = n, !.u = u]
    /\ UNCHANGED <<usedIDs, files, usedFiles, stats, config, w, sw, run, sp>>

(* Step 2 of the live worker: create(..., updateID = u), one at a time *)
LiveCreate ==
    /\ hd.pc = "create"
    /\ store' = Create(store, NextID, TargetCommand(2), 1, 1, hd.u, 1)
    /\ usedIDs' = usedIDs \cup {NextID}
    /\ hd' = [hd EXCEPT !.made = Append(@, Successor(NextID, 1, 1, None)),
                        !.pc = IF Len(hd.made) + 1 = hd.n THEN "link" ELSE "create"]
    /\ UNCHANGED <<files, usedFiles, stats, config, w, sw, run, sp>>

(* Step 3 of the live worker: the linking update *)
LiveLink ==
    /\ hd.pc = "link"
    /\ store' = Update(store, Linked(hd.job, <<hd.made>>))
    /\ hd' = [hd EXCEPT !.pc = "linked",
                        !.job = Linked(hd.job, <<hd.made>>),
                        !.dangling = { hd.made[k][1] : k \in DOMAIN hd.made } \ DOMAIN store]
    /\ UNCHANGED <<usedIDs, files, usedFiles, stats, config, w, sw, run, sp>>

InitLive ==
    /\ config \in [ stats : {FALSE}, try_count : 0 .. MaxRetry ]
    /\ store = [ i \in {1} |-> NewJob(1, TargetCommand(1), 1, 1, 1, 0, config.try_count) ]
    /\ usedIDs = {1}
    /\ files = <<>>
    /\ usedFiles = {}
    /\ stats = 0
    /\ w = IdleW
    /\ sw = NoSweep
    /\ run = NoRun
    /\ sp = NoSpawn
    /\ hd = [ pc |-> "payload",
              job |-> NewJob(1, TargetCommand(1), 1, 1, 1, 0, config.try_count),
              n |-> 0,             \* successors the payload asks for
              u |-> None,          \* the updateID it creates them with
              made |-> <<>>,       \* the group of the successors created so far
              dangling |-> {} ]    \* successors that were gone at the linking update

NextLive ==
    \/ LiveIntent
    \/ LiveCreate
    \/ LiveLink
    \/ OpenStore
    \/ CleanCollect
    \/ CleanDelete
    \/ CleanRepair
    \/ CloseStore
    \/ Reap

SpecLive == InitLive /\ [][NextLive]_vars

(* C37: the sweep of a process that opens the store while a live worker is *)
(* between step 1 and step 3 of a spawn does not delete the successors     *)
(* that worker has created: they are all there up to the linking update,   *)
(* and every successor the committed group names exists at the commit.     *)
C37_LiveSpawnSpared ==
    /\ hd.pc \in {"create", "link"} =>
          \A k \in DOMAIN hd.made : ExistsEntry(store, hd.made[k])
    /\ hd.dangling = {}

(* The sweep writes back the record it read and changed in memory *)
SweepUpdates == w.pc = "clean_update" /\ w'.pc = "clean_repair"

(* C38: the update of a sweep that runs next to a live worker leaves the   *)
(* persisted command of the record as it is, and its stack as it is but    *)
(* for the dead groups the sweep repairs: it does not put back the command *)
(* and stack it read before the worker's linking update.  When the worker  *)
(* has linked and no sweep is under way the persisted command is the one   *)
(* of the worker's last update.                                            *)
C38_NoLostUpdate ==
    /\ [][(SweepUpdates /\ Exists(store, w.job.jobStoreID)) =>
             /\ store'[w.job.jobStoreID].command = store[w.job.jobStoreID].command
             /\ store'[w.job.jobStoreID].stack =
                   RepairStack(store, store[w.job.jobStoreID].stack).stack]_vars
    /\ []((hd.pc = "linked" /\ w.pc \in {"idle", "opened", "ended"}) =>
             store[1].command = hd.job.command)

====
